---- MODULE Spec2Model ----
(***************************************************************************)
(* The financial-model calculation pipeline of src/engine: CohortEngine,   *)
(* RevenueEngine, COGSEngine, OpexEngine, StatementsEngine and             *)
(* ValidationEngine, sequenced by Orchestrator.                            *)
(*                                                                         *)
(* Numbers.  Every Decimal of the program is an integer count of           *)
(* thousandths (Scale): 12.5 is 12500, the rate 0.2 is 200.  quantize to   *)
(* Decimal("0.01") is ROUND_HALF_EVEN to a multiple of Cent, computed on   *)
(* the exact product or quotient whenever the code quantizes the result of *)
(* one.  A value the code keeps unquantized is kept to the thousandth      *)
(* (the 28-digit context precision of decimal is narrowed to three places).*)
(***************************************************************************)
EXTENDS Integers, Sequences, FiniteSets, TLC

\* Length of the caller's month list.
NumMonths == 3

\* Decimal fixed point: units per 1.
Scale == 1000

\* Decimal("0.01"), the quantum of every quantize call, in thousandths.
Cent == 10

\* ValidationEngine.tolerance = Decimal("0.01"), in thousandths.
Tolerance == 10

\* The Decimal("0.01") beyond which calculate_balance_sheet plugs retained earnings.
PlugThreshold == 10

None == [none |-> TRUE]

Abs(x) == IF x < 0 THEN -x ELSE x

Max(a, b) == IF a >= b THEN a ELSE b

\* n/d rounded to the nearest integer, ties to even (decimal.ROUND_HALF_EVEN); d > 0.
RoundHalfEven(n, d) ==
    LET q == n \div d
        r == n % d
    IN  IF 2 * r < d THEN q
        ELSE IF 2 * r > d THEN q + 1
        ELSE IF q % 2 = 0 THEN q ELSE q + 1

\* x.quantize(Decimal("0.01")) for x in thousandths.
Quantize(x) == RoundHalfEven(x, Cent) * Cent

\* (a * b).quantize(Decimal("0.01")): the exact product of two scaled values, rounded once.
QuantizeMul(a, b) == RoundHalfEven(a * b, Scale * Cent) * Cent

\* (a * n / d).quantize(Decimal("0.01")) for a scaled value a and the ratio n/d, d > 0.
QuantizeRatio(a, n, d) == RoundHalfEven(a * n, d * Cent) * Cent

\* a * b kept unquantized (to the thousandth).
DecMul(a, b) == RoundHalfEven(a * b, Scale)

\* a * n / d kept unquantized (to the thousandth), d > 0.
DecRatio(a, n, d) == RoundHalfEven(a * n, d)

RECURSIVE SumOver(_, _)
\* sum(f[x] for x in S)
SumOver(S, f) ==
    IF S = {} THEN 0
    ELSE LET x == CHOOSE y \in S : TRUE IN f[x] + SumOver(S \ {x}, f)

Range(s) == {s[i] : i \in 1..Len(s)}

RECURSIVE SelectInOrder(_, _, _)
\* [m for m in s if lo <= m <= hi]
SelectInOrder(s, lo, hi) ==
    IF s = <<>> THEN <<>>
    ELSE IF lo <= Head(s) /\ Head(s) <= hi
         THEN <<Head(s)>> \o SelectInOrder(Tail(s), lo, hi)
         ELSE SelectInOrder(Tail(s), lo, hi)

EmptyMap == [x \in {} |-> 0]

(***************************************************************************)
(* CohortEngine (cohorts.py)                                               *)
(***************************************************************************)

CohortKey(month, scenario_id, segment_id, channel_id) ==
    [month |-> month, scenario_id |-> scenario_id,
     segment_id |-> segment_id, channel_id |-> channel_id]

\* Rows of a table whose scenario/segment/channel columns match.
MatchSSC(table, scenario_id, segment_id, channel_id) ==
    {r \in table : r.scenario_id = scenario_id /\ r.segment_id = segment_id
                   /\ r.channel_id = channel_id}

\* Rows of a monthly table matching month and scenario/segment/channel.
MatchMSSC(table, month, scenario_id, segment_id, channel_id) ==
    {r \in MatchSSC(table, scenario_id, segment_id, channel_id) : r.month = month}

\* iloc[0] of a selection (tables hold at most one row per key).
First(rows) == CHOOSE r \in rows : TRUE

calculate_new_logos(inp, month, scenario_id, segment_id, channel_id) ==
    LET ov == MatchMSSC(inp.new_logos_override, month, scenario_id, segment_id, channel_id)
        fu == MatchMSSC(inp.funnel_assumptions, month, scenario_id, segment_id, channel_id)
    IN  IF ov # {} THEN First(ov).new_logos * Scale
        ELSE IF fu = {} THEN 0
        ELSE \* round(leads * lead_to_sql * sql_to_win, 2)
             LET row == First(fu)
             IN  RoundHalfEven(row.leads * row.lead_to_sql * row.sql_to_win, Scale * Cent) * Cent

\* A variant of calculate_churn that falls back to 5% churn when there is no retention row.
calculate_churn_default(inp, active_logos, scenario_id, segment_id, channel_id) ==
    LET rr == MatchSSC(inp.retention_assumptions, scenario_id, segment_id, channel_id)
    IN  IF rr = {} THEN QuantizeMul(active_logos, 50)
        ELSE QuantizeMul(active_logos, First(rr).logo_churn_m)

\* A variant of calculate_churn in which no logo ever churns.
calculate_churn_none(inp, active_logos, scenario_id, segment_id, channel_id) == 0

calculate_churn(inp, active_logos, scenario_id, segment_id, channel_id) ==
    LET rr == MatchSSC(inp.retention_assumptions, scenario_id, segment_id, channel_id)
    IN  IF rr = {} THEN 0
        ELSE QuantizeMul(active_logos, First(rr).logo_churn_m)

RECURSIVE GrowthFactor(_, _)
\* (1 + rate) ** n, exact for the growth rates of the input tables.
GrowthFactor(rate, n) ==
    IF n = 0 THEN Scale ELSE DecMul(GrowthFactor(rate, n - 1), Scale + rate)

calculate_seats_envs(inp, scenario_id, segment_id, channel_id, months_since_start) ==
    LET rows == MatchSSC(inp.seats_envs_assumptions, scenario_id, segment_id, channel_id)
    IN  IF rows = {} THEN [seats |-> Scale, envs |-> Scale]
        ELSE LET r == First(rows)
             IN  [seats |-> QuantizeMul(r.seats_per_tenant_start,
                                        GrowthFactor(r.seats_growth_m, months_since_start)),
                  envs  |-> QuantizeMul(r.envs_per_tenant_start,
                                        GrowthFactor(r.envs_growth_m, months_since_start))]

\* A variant of attached_logos that applies the target rate from the first month.
attached_logos_at_target(row, active_logos, months_since_start) ==
    QuantizeMul(active_logos, row.attach_rate)

\* One attach-rate row: the attached count for the row's sku.
attached_logos(row, active_logos, months_since_start) ==
    IF months_since_start >= row.attach_ramp_months
    THEN QuantizeMul(active_logos, row.attach_rate)
    ELSE QuantizeRatio(active_logos, row.attach_rate * months_since_start,
                       row.attach_ramp_months * Scale)

calculate_pack_attachments(inp, active_logos, segment_id, channel_id, months_since_start) ==
    LET relevant == {r \in inp.pack_attach_rates :
                        r.segment_id = segment_id /\ r.channel_id = channel_id}
        skus == {r.sku_id : r \in relevant}
    IN  [s \in skus |->
            attached_logos(First({r \in relevant : r.sku_id = s}),
                           active_logos, months_since_start)]

\* A variant of raises_domain_error that lets negative actives through.
raises_domain_error_never(active_logos) == FALSE

\* `if active_logos < 0: raise ValueError(...)`
raises_domain_error(active_logos) == active_logos < 0

\* prior_state is None or a CohortState; the result is a CohortState or the raised ValueError.
calculate_cohort_state(inp, month, scenario_id, segment_id, channel_id, prior_state, months_since_start) ==
    LET prior_active   == IF prior_state = None THEN 0 ELSE prior_state.active_logos
        new_logos      == calculate_new_logos(inp, month, scenario_id, segment_id, channel_id)
        churned_logos  == calculate_churn(inp, prior_active, scenario_id, segment_id, channel_id)
        retained_logos == prior_active - churned_logos
        active_logos   == retained_logos + new_logos
        se == calculate_seats_envs(inp, scenario_id, segment_id, channel_id, months_since_start)
    IN  IF raises_domain_error(active_logos)
        THEN [raised |-> TRUE]
        ELSE [raised |-> FALSE,
              active_logos |-> active_logos,
              new_logos |-> new_logos,
              churned_logos |-> churned_logos,
              retained_logos |-> retained_logos,
              avg_seats |-> se.seats,
              avg_envs |-> se.envs,
              total_seats |-> DecMul(active_logos, se.seats),
              total_envs |-> DecMul(active_logos, se.envs),
              pack_attachments |-> calculate_pack_attachments(
                    inp, active_logos, segment_id, channel_id, months_since_start)]

(***************************************************************************)
(* RevenueEngine (revenue.py)                                              *)
(***************************************************************************)

\* sku_breakdown.get(sku_id, "base")
sku_type_of(inp, sku_id) ==
    IF sku_id \in DOMAIN inp.sku_breakdown THEN inp.sku_breakdown[sku_id] ELSE "base"

\* The unit count that drives one price-book row; a usage-based or fixed row is skipped
\* by "continue" and so adds nothing to its bucket.
mrr_units(inp, price_info, cohort_state) ==
    IF price_info.price_model = "per_tenant"
    THEN IF sku_type_of(inp, price_info.sku_id) = "base"
         THEN cohort_state.active_logos
         ELSE IF price_info.sku_id \in DOMAIN cohort_state.pack_attachments
              THEN cohort_state.pack_attachments[price_info.sku_id]
              ELSE 0
    ELSE IF price_info.price_model = "per_seat" THEN cohort_state.total_seats
    ELSE IF price_info.price_model = "per_env" THEN cohort_state.total_envs
    ELSE 0

\* units * monthly_price * (1 - discount) of one price-book row, unquantized.
sku_mrr(inp, price_info, cohort_state) ==
    LET units == mrr_units(inp, price_info, cohort_state)
        monthly_price == IF price_info.billing_period = "annual"
                         THEN DecRatio(price_info.list_price, 1, 12)
                         ELSE price_info.list_price
    IN  DecMul(DecMul(units, monthly_price), Scale - price_info.default_discount_pct)

calculate_subscription_mrr(inp, cohort_state) ==
    LET bucket(t) ==
            LET rows == {p \in inp.price_book : sku_type_of(inp, p.sku_id) = t}
            IN  Quantize(SumOver(rows, [p \in rows |-> sku_mrr(inp, p, cohort_state)]))
    IN  [mrr_base |-> bucket("base"), mrr_packs |-> bucket("pack"), mrr_addons |-> bucket("addon")]

calculate_usage_revenue(inp, cohort_state, scenario_id, segment_id, channel_id) ==
    LET usage_row == MatchSSC(inp.usage_assumptions, scenario_id, segment_id, channel_id)
        llm_mon == {u \in inp.usage_monetization :
                        u.sku_id = "usage_llm" /\ u.segment_id = segment_id}
    IN  IF inp.usage_assumptions = {} \/ inp.usage_monetization = {} THEN 0
        ELSE IF usage_row = {} THEN 0
        ELSE IF llm_mon = {} THEN 0
        ELSE LET usage == First(usage_row)
                 mon == First(llm_mon)
                 total_tokens == DecMul(cohort_state.active_logos, usage.tokens_per_tenant_m)
                 included == DecMul(cohort_state.active_logos, mon.included_units_per_tenant_m)
                 overage_units == Max(total_tokens - included, 0)
                 actual_overage == DecMul(overage_units, mon.overage_take_rate)
             IN  \* actual_overage * overage_price_per_unit / 1000, quantized
                 QuantizeRatio(actual_overage, mon.overage_price_per_unit, Scale * 1000)

calculate_services_revenue(inp, cohort_state, scenario_id, segment_id, channel_id) ==
    LET rows == MatchSSC(inp.services_assumptions, scenario_id, segment_id, channel_id)
    IN  IF rows = {} THEN [impl |-> 0, advisory |-> 0]
        ELSE [impl |-> QuantizeMul(cohort_state.new_logos, First(rows).impl_fee_per_new_logo),
              advisory |-> QuantizeMul(cohort_state.active_logos, First(rows).advisory_fee_m)]

\* A variant of resale_net_revenue that books the gross amount.
resale_net_revenue_gross(gross_revenue, pct) == Quantize(gross_revenue)

\* The net revenue of the resale-discount model: (gross - gross * pct), quantized once.
resale_net_revenue(gross_revenue, pct) ==
    RoundHalfEven(gross_revenue * Scale - gross_revenue * pct, Scale * Cent) * Cent

\* A variant of apply_channel_mechanics that applies every percentage of the terms row,
\* whichever model the row selects.
apply_channel_mechanics_stacked(inp, gross_revenue, channel_id) ==
    LET rows == {c \in inp.channel_terms : c.channel_id = channel_id}
    IN  IF rows = {}
        THEN [channel_discount |-> 0, channel_payout |-> 0, net_revenue |-> gross_revenue]
        ELSE LET terms == First(rows)
             IN  [channel_discount |-> QuantizeMul(gross_revenue, terms.resale_discount_pct),
                  channel_payout |->
                        QuantizeMul(gross_revenue, terms.revshare_pct + terms.referral_fee_pct),
                  net_revenue |-> resale_net_revenue(gross_revenue, terms.resale_discount_pct)]

apply_channel_mechanics(inp, gross_revenue, channel_id) ==
    LET rows == {c \in inp.channel_terms : c.channel_id = channel_id}
    IN  IF rows = {}
        THEN [channel_discount |-> 0, channel_payout |-> 0, net_revenue |-> gross_revenue]
        ELSE LET terms == First(rows)
             IN  IF terms.model = "resale_discount"
                 THEN [channel_discount |-> QuantizeMul(gross_revenue, terms.resale_discount_pct),
                       channel_payout |-> 0,
                       net_revenue |-> resale_net_revenue(gross_revenue, terms.resale_discount_pct)]
                 ELSE IF terms.model = "revshare"
                 THEN [channel_discount |-> 0,
                       channel_payout |-> QuantizeMul(gross_revenue, terms.revshare_pct),
                       net_revenue |-> Quantize(gross_revenue)]
                 ELSE IF terms.model = "referral_fee"
                 THEN [channel_discount |-> 0,
                       channel_payout |-> QuantizeMul(gross_revenue, terms.referral_fee_pct),
                       net_revenue |-> Quantize(gross_revenue)]
                 ELSE [channel_discount |-> 0, channel_payout |-> 0,
                       net_revenue |-> Quantize(gross_revenue)]

calculate_revenue(inp, key, cohort_state) ==
    LET mrr == calculate_subscription_mrr(inp, cohort_state)
        mrr_total == mrr.mrr_base + mrr.mrr_packs + mrr.mrr_addons
        usage_revenue == calculate_usage_revenue(
                            inp, cohort_state, key.scenario_id, key.segment_id, key.channel_id)
        svc == calculate_services_revenue(
                            inp, cohort_state, key.scenario_id, key.segment_id, key.channel_id)
        services_total == svc.impl + svc.advisory
        gross_revenue == mrr_total + usage_revenue + services_total
        ch == apply_channel_mechanics(inp, gross_revenue, key.channel_id)
    IN  [mrr_base |-> mrr.mrr_base,
         mrr_packs |-> mrr.mrr_packs,
         mrr_addons |-> mrr.mrr_addons,
         mrr_total |-> mrr_total,
         arr |-> mrr_total * 12,
         usage_revenue |-> usage_revenue,
         services_impl |-> svc.impl,
         services_advisory |-> svc.advisory,
         services_total |-> services_total,
         gross_revenue |-> gross_revenue,
         channel_discount |-> ch.channel_discount,
         channel_payout |-> ch.channel_payout,
         net_revenue |-> ch.net_revenue]

\* RevenueEngine.run
revenue_run(inp, cohorts) ==
    [key \in DOMAIN cohorts |-> calculate_revenue(inp, key, cohorts[key])]

(***************************************************************************)
(* COGSEngine (cogs.py)                                                    *)
(***************************************************************************)

\* cogs_lookup.get(scenario_id): the scenario's unit costs as a set of at most one row.
cogs_params_of(inp, scenario_id) ==
    {c \in inp.cogs_unit_costs : c.scenario_id = scenario_id}

calculate_variable_cogs(inp, cohort_state, scenario_id, segment_id, channel_id) ==
    LET params == cogs_params_of(inp, scenario_id)
        usage_row == MatchSSC(inp.usage_assumptions, scenario_id, segment_id, channel_id)
        zero == [llm |-> 0, embed |-> 0, compute |-> 0, storage |-> 0, support |-> 0]
    IN  IF params = {} \/ usage_row = {} THEN zero
        ELSE LET c == First(params)
                 usage == First(usage_row)
                 active == cohort_state.active_logos
             IN  [llm |-> QuantizeRatio(DecMul(active, usage.tokens_per_tenant_m),
                                        c.llm_cost_per_1k_tokens, Scale * 1000),
                  embed |-> QuantizeMul(DecMul(active, usage.embed_1k_tokens_per_tenant_m),
                                        c.embed_cost_per_1k_tokens),
                  compute |-> QuantizeMul(DecMul(active, usage.compute_hours_per_tenant_m),
                                          c.compute_cost_per_hour),
                  storage |-> QuantizeMul(DecMul(active, usage.storage_gb_per_tenant_m),
                                          c.storage_cost_per_gb_m),
                  support |-> QuantizeMul(DecMul(active, usage.support_tickets_per_tenant_m),
                                          c.support_cost_per_ticket)]

calculate_fixed_cogs(inp, scenario_id) ==
    LET params == cogs_params_of(inp, scenario_id)
    IN  IF params = {} THEN 0 ELSE First(params).fixed_platform_cogs_m

calculate_services_cogs(inp, revenue_breakdown, scenario_id, segment_id, channel_id) ==
    LET rows == MatchSSC(inp.services_assumptions, scenario_id, segment_id, channel_id)
    IN  IF rows = {} THEN [impl |-> 0, advisory |-> 0]
        ELSE [impl |-> QuantizeMul(revenue_breakdown.services_impl, First(rows).impl_cogs_pct),
              advisory |-> QuantizeMul(revenue_breakdown.services_advisory,
                                       First(rows).advisory_cogs_pct)]

\* A variant of fixed_allocation that charges the whole baseline to every cohort.
fixed_allocation_full(full_fixed, active_logos, total_active) ==
    IF total_active > 0 THEN full_fixed ELSE 0

\* full_fixed * fixed_allocation_pct, the allocation being active_logos / total_active
\* (Decimal("0") when total_active is not positive).
fixed_allocation(full_fixed, active_logos, total_active) ==
    IF total_active > 0 THEN DecRatio(full_fixed, active_logos, total_active) ELSE 0

calculate_cogs(inp, key, cohort_state, revenue_breakdown, total_active) ==
    LET v == calculate_variable_cogs(
                inp, cohort_state, key.scenario_id, key.segment_id, key.channel_id)
        variable_total == v.llm + v.embed + v.compute + v.storage + v.support
        fixed_platform == fixed_allocation(calculate_fixed_cogs(inp, key.scenario_id),
                                           cohort_state.active_logos, total_active)
        fixed_total == fixed_platform
        s == calculate_services_cogs(
                inp, revenue_breakdown, key.scenario_id, key.segment_id, key.channel_id)
        services_total == s.impl + s.advisory
    IN  [cogs_llm_tokens |-> v.llm,
         cogs_embeddings |-> v.embed,
         cogs_compute |-> v.compute,
         cogs_storage |-> v.storage,
         cogs_support |-> v.support,
         cogs_variable_total |-> variable_total,
         cogs_platform_fixed |-> fixed_platform,
         cogs_fixed_total |-> fixed_total,
         cogs_services_impl |-> s.impl,
         cogs_services_advisory |-> s.advisory,
         cogs_services_total |-> services_total,
         cogs_total |-> variable_total + fixed_total + services_total,
         channel_payout |-> revenue_breakdown.channel_payout]

\* A variant of cogs_run that leaves out the cohorts without active logos.
cogs_run_active_only(inp, cohorts, revenues) ==
    LET total_active == SumOver(DOMAIN cohorts,
                                [k \in DOMAIN cohorts |-> cohorts[k].active_logos])
        keys == {k \in DOMAIN cohorts \cap DOMAIN revenues : cohorts[k].active_logos > 0}
    IN  [key \in keys |-> calculate_cogs(inp, key, cohorts[key], revenues[key], total_active)]

\* COGSEngine.run
cogs_run(inp, cohorts, revenues) ==
    LET total_active == SumOver(DOMAIN cohorts,
                                [k \in DOMAIN cohorts |-> cohorts[k].active_logos])
        keys == DOMAIN cohorts \cap DOMAIN revenues
    IN  [key \in keys |-> calculate_cogs(inp, key, cohorts[key], revenues[key], total_active)]

(***************************************************************************)
(* OpexEngine (opex.py)                                                    *)
(***************************************************************************)

\* months.index(m) if m in months else 0 (0-based).
month_index(months, m) ==
    IF m \in Range(months)
    THEN (CHOOSE i \in 1..Len(months) : months[i] = m /\ \A j \in 1..(i - 1) : months[j] # m) - 1
    ELSE 0

\* A variant of hire_cost that charges a hire in full from its hire month on.
hire_cost_unramped(row, month, months) ==
    row.hires * DecRatio(row.fully_loaded_annual, 1, 12)

\* hires * (annual / 12) * ramp_factor of one headcount row, evaluated at `month`.
hire_cost(row, month, months) ==
    LET monthly_base == DecRatio(row.fully_loaded_annual, 1, 12)
        months_since_hire == month_index(months, month) - month_index(months, row.month)
    IN  IF months_since_hire >= row.ramp_months THEN row.hires * monthly_base
        ELSE IF months_since_hire <= 0 THEN 0
        ELSE DecRatio(row.hires * monthly_base, months_since_hire, row.ramp_months)

\* function name -> monthly_cost of its HeadcountState
calculate_headcount_cost(inp, month, scenario_id, months) ==
    LET scenario_rows == {h \in inp.headcount_plan : h.scenario_id = scenario_id}
        functions == {h.function : h \in scenario_rows}
    IN  [f \in functions |->
            LET hired == {h \in scenario_rows : h.function = f /\ h.month <= month}
            IN  Quantize(SumOver(hired, [h \in hired |-> hire_cost(h, month, months)]))]

calculate_non_hc_opex(inp, month, scenario_id) ==
    LET rows == {o \in inp.opex_assumptions : o.month = month /\ o.scenario_id = scenario_id}
    IN  IF rows = {} THEN 0
        ELSE LET row == First(rows)
             IN  row.marketing_spend_m + row.tools_and_software_m + row.legal_and_accounting_m
                 + row.rent_and_admin_m + row.other_opex_m

calculate_sales_comp(inp, cohorts, revenues, month, scenario_id) ==
    LET keys == {k \in DOMAIN revenues :
                    /\ k.month = month /\ k.scenario_id = scenario_id
                    /\ MatchSSC(inp.sales_comp_assumptions,
                                scenario_id, k.segment_id, k.channel_id) # {}}
        comp(k) == First(MatchSSC(inp.sales_comp_assumptions,
                                  scenario_id, k.segment_id, k.channel_id))
        paid == keys \cap DOMAIN cohorts
    IN  [commissions |->
            RoundHalfEven(SumOver(keys, [k \in keys |->
                            revenues[k].mrr_total * comp(k).commission_pct_of_sub_rev]),
                          Scale * Cent) * Cent,
         cac |->
            RoundHalfEven(SumOver(paid, [k \in paid |->
                            cohorts[k].new_logos * comp(k).cac_paid_per_new_logo]),
                          Scale * Cent) * Cent]

calculate_opex(inp, month, scenario_id, months, cohorts, revenues) ==
    LET hc == calculate_headcount_cost(inp, month, scenario_id, months)
        opex_headcount_total == SumOver(DOMAIN hc, hc)
        sc == calculate_sales_comp(inp, cohorts, revenues, month, scenario_id)
        opex_sales_comp_total == sc.commissions + sc.cac
        opex_non_hc_total == calculate_non_hc_opex(inp, month, scenario_id)
    IN  [opex_by_function |-> hc,
         opex_headcount_total |-> opex_headcount_total,
         opex_commissions |-> sc.commissions,
         opex_cac_payments |-> sc.cac,
         opex_sales_comp_total |-> opex_sales_comp_total,
         opex_non_hc_total |-> opex_non_hc_total,
         opex_total |-> opex_headcount_total + opex_sales_comp_total + opex_non_hc_total]

\* OpexEngine.run
opex_run(inp, months, scenario_id, cohorts, revenues) ==
    [m \in Range(months) |-> calculate_opex(inp, m, scenario_id, months, cohorts, revenues)]

\* OpexBreakdown(): the all-zero breakdown StatementsEngine.run substitutes for a missing month.
EmptyOpex ==
    [opex_by_function |-> EmptyMap, opex_headcount_total |-> 0, opex_commissions |-> 0,
     opex_cac_payments |-> 0, opex_sales_comp_total |-> 0, opex_non_hc_total |-> 0,
     opex_total |-> 0]

(***************************************************************************)
(* StatementsEngine (statements.py)                                        *)
(***************************************************************************)

\* A variant of gross_profit_of taken before channel payouts.
gross_profit_before_payouts(net_revenue, cogs_total, channel_payouts) ==
    net_revenue - cogs_total

\* gross_profit = net_revenue - cogs_total - channel_payouts
gross_profit_of(net_revenue, cogs_total, channel_payouts) ==
    net_revenue - cogs_total - channel_payouts

aggregate_pnl(month, scenario_id, revenues, cogs, opex_breakdown) ==
    LET rk == {k \in DOMAIN revenues : k.month = month /\ k.scenario_id = scenario_id}
        ck == {k \in DOMAIN cogs : k.month = month /\ k.scenario_id = scenario_id}
        revenue_subs == SumOver(rk, [k \in rk |-> revenues[k].mrr_total])
        revenue_usage == SumOver(rk, [k \in rk |-> revenues[k].usage_revenue])
        revenue_services == SumOver(rk, [k \in rk |-> revenues[k].services_total])
        channel_discounts == SumOver(rk, [k \in rk |-> revenues[k].channel_discount])
        channel_payouts == SumOver(rk, [k \in rk |-> revenues[k].channel_payout])
        revenue_total == revenue_subs + revenue_usage + revenue_services
        net_revenue == revenue_total - channel_discounts
        cogs_variable == SumOver(ck, [k \in ck |-> cogs[k].cogs_variable_total])
        cogs_fixed == SumOver(ck, [k \in ck |-> cogs[k].cogs_fixed_total])
        cogs_services == SumOver(ck, [k \in ck |-> cogs[k].cogs_services_total])
        cogs_total == cogs_variable + cogs_fixed + cogs_services
        gross_profit == gross_profit_of(net_revenue, cogs_total, channel_payouts)
        opex_total == opex_breakdown.opex_total
        ebitda == gross_profit - opex_total
    IN  [revenue_subscriptions |-> Quantize(revenue_subs),
         revenue_usage |-> Quantize(revenue_usage),
         revenue_services |-> Quantize(revenue_services),
         revenue_total |-> Quantize(revenue_total),
         channel_discounts |-> Quantize(channel_discounts),
         net_revenue |-> Quantize(net_revenue),
         cogs_variable |-> Quantize(cogs_variable),
         cogs_fixed |-> Quantize(cogs_fixed),
         cogs_services |-> Quantize(cogs_services),
         cogs_total |-> Quantize(cogs_total),
         channel_payouts |-> Quantize(channel_payouts),
         gross_profit |-> Quantize(gross_profit),
         opex_headcount |-> Quantize(opex_breakdown.opex_headcount_total),
         opex_sales_comp |-> Quantize(opex_breakdown.opex_sales_comp_total),
         opex_other |-> Quantize(opex_breakdown.opex_non_hc_total),
         opex_total |-> Quantize(opex_total),
         ebitda |-> Quantize(ebitda)]

\* billing_lookup.get(scenario_id) / payables_lookup.get(scenario_id): at most one row.
billing_terms_of(inp, scenario_id) ==
    {b \in inp.billing_collections : b.scenario_id = scenario_id}

payables_terms_of(inp, scenario_id) ==
    {p \in inp.payables : p.scenario_id = scenario_id}

\* A variant of collections_floor that lets net collections go below zero.
collections_floor_none(collections_net) == collections_net

\* max(collections_net.quantize(Decimal("0.01")), Decimal("0"))
collections_floor(collections_net) == Max(collections_net, 0)

calculate_collections(inp, scenario_id, pnl, prior_ar) ==
    LET terms == billing_terms_of(inp, scenario_id)
    IN  IF terms = {} THEN [collections |-> pnl.revenue_total, ending_ar |-> 0]
        ELSE LET t == First(terms)
                 billings == pnl.revenue_total
                 \* billings * (dso_days / 30), unquantized
                 ending_ar == DecRatio(billings, t.dso_days, 30)
                 collections == prior_ar + billings - ending_ar
                 \* collections - collections * bad_debt_pct, quantized once
                 collections_net ==
                    RoundHalfEven(collections * Scale - collections * t.bad_debt_pct,
                                  Scale * Cent) * Cent
             IN  [collections |-> collections_floor(collections_net),
                  ending_ar |-> QuantizeRatio(billings, t.dso_days, 30)]

calculate_disbursements(inp, scenario_id, pnl, prior_ap) ==
    LET terms == payables_terms_of(inp, scenario_id)
    IN  IF terms = {}
        THEN [cogs |-> pnl.cogs_total, opex |-> pnl.opex_total,
              channel |-> pnl.channel_payouts, ending_ap |-> 0]
        ELSE LET t == First(terms)
                 total_expenses == pnl.cogs_total + pnl.opex_total + pnl.channel_payouts
                 ending_ap == DecRatio(total_expenses, t.dpo_days, 30)
                 total_disbursements == prior_ap + total_expenses - ending_ap
                 \* total_disbursements * (part / total_expenses), quantized; the P&L
                 \* amounts are whole cents, so the ratio is taken in cents
                 share(part) == IF total_expenses > 0
                                THEN QuantizeRatio(total_disbursements, part \div Cent,
                                                   total_expenses \div Cent)
                                ELSE 0
             IN  [cogs |-> share(pnl.cogs_total),
                  opex |-> share(pnl.opex_total),
                  channel |-> share(pnl.channel_payouts),
                  ending_ap |-> QuantizeRatio(total_expenses, t.dpo_days, 30)]

\* A variant of deferred_recognition that never recognises the deferred balance.
deferred_recognition_never(prior_deferred) == 0

\* recognition = prior_deferred / 12 if prior_deferred > 0 else 0, as the numerator over 12.
deferred_recognition(prior_deferred) == IF prior_deferred > 0 THEN prior_deferred ELSE 0

\* change_in_deferred = revenue_subscriptions * annual_prepaid_mix * 11 / 12 - recognition
\* is the exact ratio change_num / (12 * Scale); each returned amount is rounded once.
calculate_deferred_revenue(inp, scenario_id, pnl, prior_deferred) ==
    LET terms == billing_terms_of(inp, scenario_id)
    IN  IF terms = {} THEN [change |-> 0, ending |-> 0]
        ELSE IF First(terms).annual_prepaid_mix = 0 THEN [change |-> 0, ending |-> 0]
        ELSE LET annual_sub_revenue ==
                    pnl.revenue_subscriptions * First(terms).annual_prepaid_mix
                 change_num == annual_sub_revenue * 11
                               - deferred_recognition(prior_deferred) * Scale
                 ending_num == prior_deferred * 12 * Scale + change_num
             IN  [change |-> RoundHalfEven(change_num, 12 * Scale * Cent) * Cent,
                  ending |-> Max(RoundHalfEven(ending_num, 12 * Scale * Cent) * Cent, 0)]

calculate_cash_flow(inp, scenario_id, pnl, prior_cash, prior_ar, prior_ap, prior_deferred) ==
    LET col == calculate_collections(inp, scenario_id, pnl, prior_ar)
        dis == calculate_disbursements(inp, scenario_id, pnl, prior_ap)
        def == calculate_deferred_revenue(inp, scenario_id, pnl, prior_deferred)
        total_disbursements == dis.cogs + dis.opex + dis.channel
        cash_from_operations == col.collections - total_disbursements + def.change
        cash_end == prior_cash + cash_from_operations
    IN  [cash_begin |-> prior_cash,
         collections |-> col.collections,
         disbursements_cogs |-> dis.cogs,
         disbursements_opex |-> dis.opex,
         disbursements_channel |-> dis.channel,
         change_in_ar |-> prior_ar - col.ending_ar,
         change_in_deferred_rev |-> def.change,
         change_in_ap |-> dis.ending_ap - prior_ap,
         cash_from_operations |-> Quantize(cash_from_operations),
         cash_end |-> Quantize(cash_end)]

\* A variant of plug_adjustment that never adjusts retained earnings.
plug_adjustment_never(total_assets, total_liabilities_equity) == 0

\* The reconciling plug: what is added to retained earnings when the sheet is out of balance.
plug_adjustment(total_assets, total_liabilities_equity) ==
    IF Abs(total_assets - total_liabilities_equity) > PlugThreshold
    THEN total_assets - total_liabilities_equity
    ELSE 0

\* A variant of contributed_capital_of that folds the prior month's retained earnings
\* into contributed capital.
contributed_capital_of_equity(inp, prior_balance_sheet) ==
    IF prior_balance_sheet # None THEN prior_balance_sheet.total_equity
    ELSE inp.initial_contributed_capital

\* contributed_capital: the prior sheet's, or the initial one in the first month.
contributed_capital_of(inp, prior_balance_sheet) ==
    IF prior_balance_sheet # None THEN prior_balance_sheet.contributed_capital
    ELSE inp.initial_contributed_capital

calculate_balance_sheet(inp, scenario_id, cash_flow, prior_balance_sheet, pnl) ==
    LET has_prior == prior_balance_sheet # None
        prior_ar == IF has_prior THEN prior_balance_sheet.accounts_receivable ELSE 0
        prior_ap == IF has_prior THEN prior_balance_sheet.accounts_payable ELSE 0
        prior_deferred == IF has_prior THEN prior_balance_sheet.deferred_revenue ELSE 0
        prior_retained == IF has_prior THEN prior_balance_sheet.retained_earnings ELSE 0
        contributed_capital == contributed_capital_of(inp, prior_balance_sheet)
        ending_ar == calculate_collections(inp, scenario_id, pnl, prior_ar).ending_ar
        ending_ap == calculate_disbursements(inp, scenario_id, pnl, prior_ap).ending_ap
        ending_deferred ==
            calculate_deferred_revenue(inp, scenario_id, pnl, prior_deferred).ending
        cash == cash_flow.cash_end
        total_assets == cash + ending_ar
        total_liabilities == ending_ap + ending_deferred
        unplugged == prior_retained + pnl.ebitda
        retained_earnings ==
            unplugged + plug_adjustment(total_assets,
                                        total_liabilities + contributed_capital + unplugged)
        total_equity == contributed_capital + retained_earnings
        total_liabilities_equity == total_liabilities + total_equity
    IN  [cash |-> cash,
         accounts_receivable |-> ending_ar,
         total_assets |-> Quantize(total_assets),
         accounts_payable |-> ending_ap,
         deferred_revenue |-> ending_deferred,
         total_liabilities |-> Quantize(total_liabilities),
         contributed_capital |-> contributed_capital,
         retained_earnings |-> Quantize(retained_earnings),
         total_equity |-> Quantize(total_equity),
         total_liabilities_equity |-> Quantize(total_liabilities_equity)]

(***************************************************************************)
(* ValidationEngine (validation.py)                                        *)
(* A ValidationResult is [gate_id, severity, passed, row]: row is the key  *)
(* (or month) the record reports on, "all" for a gate's pass record.       *)
(***************************************************************************)

Failed(gate_id, severity, row) ==
    [gate_id |-> gate_id, severity |-> severity, passed |-> FALSE, row |-> row]

\* A variant of OrPass that returns the failed records only.
OrPass_never(gate_id, results) == results

\* `if not results: results.append(<info pass record>)`
OrPass(gate_id, results) ==
    IF results = {}
    THEN {[gate_id |-> gate_id, severity |-> "info", passed |-> TRUE, row |-> "all"]}
    ELSE results

\* A reconciliation gate: one error record per row whose two sides differ by more than
\* the tolerance; diff maps each row to expected - actual.
Reconcile(gate_id, diff) ==
    OrPass(gate_id, {Failed(gate_id, "error", k) :
                        k \in {r \in DOMAIN diff : Abs(diff[r]) > Tolerance}})

validate_no_negative_actives(cohorts) ==
    OrPass("no_negative_actives",
           {Failed("no_negative_actives", "error", k) :
                k \in {r \in DOMAIN cohorts : cohorts[r].active_logos < 0}})

validate_churn_in_bounds(cohorts) ==
    LET prior_active(k) == cohorts[k].retained_logos + cohorts[k].churned_logos
        negative == {k \in DOMAIN cohorts : cohorts[k].churned_logos < 0}
        exceeds == {k \in DOMAIN cohorts :
                        cohorts[k].churned_logos > prior_active(k) /\ prior_active(k) > 0}
    IN  OrPass("churn_in_bounds",
               {Failed("churn_in_bounds", "error", k) : k \in negative}
               \cup {Failed("churn_in_bounds", "warning", k) : k \in exceeds})

validate_cohort_flow(cohorts) ==
    LET expected(k) == cohorts[k].retained_logos + cohorts[k].new_logos
        actual(k) == cohorts[k].active_logos
    IN  Reconcile("cohort_flow", [k \in DOMAIN cohorts |-> expected(k) - actual(k)])

validate_revenue_breakdown(revenues) ==
    LET expected(k) == revenues[k].mrr_base + revenues[k].mrr_packs + revenues[k].mrr_addons
        actual(k) == revenues[k].mrr_total
    IN  Reconcile("revenue_breakdown", [k \in DOMAIN revenues |-> expected(k) - actual(k)])

validate_arr_calculation(revenues) ==
    LET expected(k) == revenues[k].mrr_total * 12
        actual(k) == revenues[k].arr
    IN  Reconcile("arr_calculation", [k \in DOMAIN revenues |-> expected(k) - actual(k)])

validate_net_revenue(revenues) ==
    LET expected(k) == revenues[k].gross_revenue - revenues[k].channel_discount
        actual(k) == revenues[k].net_revenue
    IN  Reconcile("net_revenue", [k \in DOMAIN revenues |-> expected(k) - actual(k)])

validate_cogs_breakdown(cogs) ==
    LET expected(k) == cogs[k].cogs_variable_total + cogs[k].cogs_fixed_total
                       + cogs[k].cogs_services_total
        actual(k) == cogs[k].cogs_total
    IN  Reconcile("cogs_breakdown", [k \in DOMAIN cogs |-> expected(k) - actual(k)])

validate_variable_cogs_breakdown(cogs) ==
    LET expected(k) == cogs[k].cogs_llm_tokens + cogs[k].cogs_embeddings + cogs[k].cogs_compute
                       + cogs[k].cogs_storage + cogs[k].cogs_support
        actual(k) == cogs[k].cogs_variable_total
    IN  Reconcile("variable_cogs_breakdown", [k \in DOMAIN cogs |-> expected(k) - actual(k)])

validate_gross_profit(pnls) ==
    LET expected(m) == pnls[m].net_revenue - pnls[m].cogs_total - pnls[m].channel_payouts
        actual(m) == pnls[m].gross_profit
    IN  Reconcile("gross_profit", [k \in DOMAIN pnls |-> expected(k) - actual(k)])

validate_ebitda(pnls) ==
    LET expected(m) == pnls[m].gross_profit - pnls[m].opex_total
        actual(m) == pnls[m].ebitda
    IN  Reconcile("ebitda", [k \in DOMAIN pnls |-> expected(k) - actual(k)])

validate_cash_roll_forward(cashflows, months) ==
    LET present == {i \in 1..Len(months) : months[i] \in DOMAIN cashflows}
        cf(i) == cashflows[months[i]]
        mismatch == {i \in present :
                        Abs(cf(i).cash_begin + cf(i).cash_from_operations - cf(i).cash_end)
                            > Tolerance}
        break == {i \in present :
                    /\ i > 1
                    /\ (i - 1) \in present
                    /\ Abs(cf(i).cash_begin - cf(i - 1).cash_end) > Tolerance}
    IN  OrPass("cash_roll_forward",
               {Failed("cash_roll_forward", "error", months[i]) : i \in mismatch}
               \cup {Failed("cash_continuity", "error", months[i]) : i \in break})

validate_balance_sheet_balances(sheets) ==
    LET expected(m) == sheets[m].total_liabilities_equity
        actual(m) == sheets[m].total_assets
    IN  Reconcile("balance_sheet_balances", [k \in DOMAIN sheets |-> expected(k) - actual(k)])

\* A variant of ValidationReport whose pass flag also requires that there are no warnings.
ValidationReport_strict(scenario_id, timestamp, results) ==
    LET failures(sev) ==
            SumOver(DOMAIN results,
                    [g \in DOMAIN results |->
                        Cardinality({r \in results[g] : ~r.passed /\ r.severity = sev})])
    IN  [scenario_id |-> scenario_id,
         timestamp |-> timestamp,
         results |-> results,
         error_count |-> failures("error"),
         warning_count |-> failures("warning"),
         passed |-> failures("error") = 0 /\ failures("warning") = 0]

\* ValidationReport.__post_init__ over the per-gate result lists, in run order.
ValidationReport(scenario_id, timestamp, results) ==
    LET failures(sev) ==
            SumOver(DOMAIN results,
                    [g \in DOMAIN results |->
                        Cardinality({r \in results[g] : ~r.passed /\ r.severity = sev})])
        error_count == failures("error")
    IN  [scenario_id |-> scenario_id,
         timestamp |-> timestamp,
         results |-> results,
         error_count |-> error_count,
         warning_count |-> failures("warning"),
         passed |-> error_count = 0]

\* ValidationEngine.run: the twelve gates in order, then the report.
validation_run(scenario_id, months, cohorts, revenues, cogs, pnls, cashflows, sheets, timestamp) ==
    ValidationReport(scenario_id, timestamp,
        << validate_no_negative_actives(cohorts),
           validate_churn_in_bounds(cohorts),
           validate_cohort_flow(cohorts),
           validate_revenue_breakdown(revenues),
           validate_arr_calculation(revenues),
           validate_net_revenue(revenues),
           validate_cogs_breakdown(cogs),
           validate_variable_cogs_breakdown(cogs),
           validate_gross_profit(pnls),
           validate_ebitda(pnls),
           validate_cash_roll_forward(cashflows, months),
           validate_balance_sheet_balances(sheets) >>)

(***************************************************************************)
(* Orchestrator (orchestrator.py)                                          *)
(***************************************************************************)

\* RunSettings: None, or the record given to the constructor.  With None the constructor
\* builds RunSettings(inputs.scenario_id, inputs.months[0], inputs.months[-1]).
effective_run_settings(inp, rs) ==
    IF rs = None
    THEN [scenario_id |-> inp.scenario_id,
          start_month |-> inp.months[1],
          end_month |-> inp.months[Len(inp.months)]]
    ELSE rs

\* Orchestrator._apply_run_settings: the inputs as the engines are built from them.
apply_run_settings(inp, rs) ==
    LET in_window(m) == rs.start_month <= m /\ m <= rs.end_month
        filtered_months == SelectInOrder(inp.months, rs.start_month, rs.end_month)
        of_scenario(table) == {r \in table : r.scenario_id = rs.scenario_id}
        of_scenario_in_window(table) == {r \in of_scenario(table) : in_window(r.month)}
    IN  [inp EXCEPT
            !.months = IF filtered_months # <<>> THEN filtered_months ELSE @,
            !.scenario_id = rs.scenario_id,
            !.funnel_assumptions = of_scenario_in_window(@),
            !.retention_assumptions = of_scenario(@),
            !.cogs_unit_costs = of_scenario(@),
            !.headcount_plan = of_scenario_in_window(@),
            !.opex_assumptions = of_scenario_in_window(@),
            !.new_logos_override = of_scenario_in_window(@),
            !.usage_assumptions = of_scenario(@),
            !.sales_comp_assumptions = of_scenario(@),
            !.billing_collections = of_scenario(@),
            !.payables = of_scenario(@)]

(***************************************************************************)
(* The input tables the runs are checked over                              *)
(***************************************************************************)

Segments == <<"smb">>
Channels == <<"direct", "partner">>
MonthList == [i \in 1..NumMonths |-> i]

Row(month, channel_id) ==
    [month |-> month, scenario_id |-> "base", segment_id |-> "smb", channel_id |-> channel_id]

\* new_logos_override: none; 10 direct logos every month; 5 then -8 direct logos.
OverrideTables ==
    { {},
      {Row(m, "direct") @@ [new_logos |-> 10] : m \in 1..NumMonths},
      {Row(1, "direct") @@ [new_logos |-> 5], Row(2, "direct") @@ [new_logos |-> -8]} }

\* funnel_assumptions: 40 * 0.25 * 0.21 = 2.1 direct and 50 * 0.3 * 0.2 = 3 partner wins a
\* month, and a row of another scenario.
FunnelTable ==
    {Row(m, "direct") @@ [leads |-> 40, lead_to_sql |-> 250, sql_to_win |-> 210]
        : m \in 1..NumMonths}
    \cup {Row(m, "partner") @@ [leads |-> 50, lead_to_sql |-> 300, sql_to_win |-> 200]
        : m \in 1..NumMonths}
    \cup {[Row(1, "direct") EXCEPT !.scenario_id = "alt"]
            @@ [leads |-> 1000, lead_to_sql |-> 1000, sql_to_win |-> 1000]}

Terms(channel_id) ==
    [scenario_id |-> "base", segment_id |-> "smb", channel_id |-> channel_id]

\* retention_assumptions: none; 10% churn; 150% direct and 25% partner churn.
RetentionTables ==
    { {},
      {Terms(c) @@ [logo_churn_m |-> 100] : c \in {"direct", "partner"}},
      {Terms("direct") @@ [logo_churn_m |-> 1500], Terms("partner") @@ [logo_churn_m |-> 250]} }

PriceBook ==
    { [sku_id |-> "platform_base", billing_period |-> "annual", price_model |-> "per_tenant",
       list_price |-> 12600, default_discount_pct |-> 0],
      [sku_id |-> "ai_pack", billing_period |-> "monthly", price_model |-> "per_tenant",
       list_price |-> 5000, default_discount_pct |-> 100],
      [sku_id |-> "analytics_addon", billing_period |-> "monthly", price_model |-> "per_seat",
       list_price |-> 500, default_discount_pct |-> 0],
      [sku_id |-> "usage_llm", billing_period |-> "monthly", price_model |-> "per_usage",
       list_price |-> 2000, default_discount_pct |-> 0] }

SkuBreakdown ==
    [s \in {"platform_base", "ai_pack", "analytics_addon", "usage_llm"} |->
        CASE s = "platform_base" -> "base"
          [] s = "ai_pack" -> "pack"
          [] s = "analytics_addon" -> "addon"
          [] OTHER -> "usage"]

PackAttachRates ==
    { [segment_id |-> "smb", channel_id |-> "direct", sku_id |-> "ai_pack",
       attach_rate |-> 500, attach_ramp_months |-> 2],
      [segment_id |-> "smb", channel_id |-> "partner", sku_id |-> "ai_pack",
       attach_rate |-> 250, attach_ramp_months |-> 0] }

SeatsEnvs ==
    { Terms("direct") @@ [seats_per_tenant_start |-> 2000, seats_growth_m |-> 500,
                          envs_per_tenant_start |-> 1000, envs_growth_m |-> 0] }

ChannelRow(model, resale, revshare, referral) ==
    [channel_id |-> "partner", model |-> model, resale_discount_pct |-> resale,
     revshare_pct |-> revshare, referral_fee_pct |-> referral]

\* channel_terms: the direct channel resells at no discount; the partner has no terms, a
\* 50% resale discount, a 20% revenue share or a 10% referral fee.
ChannelTables ==
    LET direct == [ChannelRow("resale_discount", 0, 0, 0) EXCEPT !.channel_id = "direct"]
    IN  { {direct},
          {direct, ChannelRow("resale_discount", 500, 300, 300)},
          {direct, ChannelRow("revshare", 300, 200, 300)},
          {direct, ChannelRow("referral_fee", 300, 300, 100)} }

UsageAssumptions ==
    { Terms(c) @@ [tokens_per_tenant_m |-> 30000, embed_1k_tokens_per_tenant_m |-> 2000,
                   compute_hours_per_tenant_m |-> 1500, storage_gb_per_tenant_m |-> 500,
                   support_tickets_per_tenant_m |-> 100] : c \in {"direct", "partner"} }

UsageMonetization ==
    { [sku_id |-> "usage_llm", segment_id |-> "smb", included_units_per_tenant_m |-> 10000,
       overage_price_per_unit |-> 2000, overage_take_rate |-> 500] }

ServicesAssumptions ==
    { Terms("direct") @@ [impl_fee_per_new_logo |-> 3000, impl_cogs_pct |-> 400,
                          advisory_fee_m |-> 250, advisory_cogs_pct |-> 500] }

COGSUnitCosts ==
    { [scenario_id |-> "base", llm_cost_per_1k_tokens |-> 300,
       embed_cost_per_1k_tokens |-> 100, compute_cost_per_hour |-> 100,
       storage_cost_per_gb_m |-> 23, support_cost_per_ticket |-> 2500,
       fixed_platform_cogs_m |-> 20000] }

HeadcountPlan ==
    { [month |-> 1, scenario_id |-> "base", function |-> "eng", hires |-> 2,
       fully_loaded_annual |-> 24000, ramp_months |-> 2],
      [month |-> 2, scenario_id |-> "base", function |-> "sales", hires |-> 1,
       fully_loaded_annual |-> 12600, ramp_months |-> 3] }

\* opex_assumptions: none, or 1.005 + 0.5 + 0.25 + 2 + 0 every month.
OpexTables ==
    { {},
      {[month |-> m, scenario_id |-> "base", marketing_spend_m |-> 1005,
        tools_and_software_m |-> 500, legal_and_accounting_m |-> 250,
        rent_and_admin_m |-> 2000, other_opex_m |-> 0] : m \in 1..NumMonths} }

SalesComp ==
    { Terms("direct") @@ [commission_pct_of_sub_rev |-> 100, cac_paid_per_new_logo |-> 1500] }

\* billing_collections: none; DSO 45 with 2% bad debt and half the base prepaying
\* annually; DSO 60.
BillingTables ==
    { {},
      {[scenario_id |-> "base", dso_days |-> 45, bad_debt_pct |-> 20,
        annual_prepaid_mix |-> 500]},
      {[scenario_id |-> "base", dso_days |-> 60, bad_debt_pct |-> 0,
        annual_prepaid_mix |-> 0]} }

PayablesTables ==
    { {}, {[scenario_id |-> "base", dpo_days |-> 45]} }

\* (initial_cash, initial_contributed_capital)
InitialBalances == { <<100000, 100000>>, <<100000, 100005>>, <<100005, 50000>> }

\* The constructor's run_settings: None, or a window that drops the first month.
RunSettingsChoices ==
    { None, [scenario_id |-> "base", start_month |-> 2, end_month |-> NumMonths] }

ModelInputs(override, retention, channel_terms, opex, billing, payables, balances) ==
    [scenario_id |-> "base",
     segments |-> Segments,
     channels |-> Channels,
     months |-> MonthList,
     sku_breakdown |-> SkuBreakdown,
     funnel_assumptions |-> FunnelTable,
     retention_assumptions |-> retention,
     price_book |-> PriceBook,
     channel_terms |-> channel_terms,
     cogs_unit_costs |-> COGSUnitCosts,
     headcount_plan |-> HeadcountPlan,
     opex_assumptions |-> opex,
     new_logos_override |-> override,
     seats_envs_assumptions |-> SeatsEnvs,
     pack_attach_rates |-> PackAttachRates,
     usage_assumptions |-> UsageAssumptions,
     usage_monetization |-> UsageMonetization,
     services_assumptions |-> ServicesAssumptions,
     sales_comp_assumptions |-> SalesComp,
     billing_collections |-> billing,
     payables |-> payables,
     initial_cash |-> balances[1],
     initial_contributed_capital |-> balances[2]]

(***************************************************************************)
(* State                                                                   *)
(***************************************************************************)

VARIABLES
    caller_inputs,          \* the ModelInputs as the caller built them
    run_settings,           \* the RunSettings each Orchestrator is built with (or None)
    inputs,                 \* the ModelInputs object handed to the constructor, which
                            \*   Orchestrator.inputs aliases and _apply_run_settings rewrites
    pc,                     \* where the current run stands
    run_no,                 \* 1 for the first Orchestrator, 2 for the second
    cohort_pos,             \* CohortEngine.run: <<segment, channel, month>> loop indices
    prior_state,            \* CohortEngine.run: prior_state of the pair being scanned
    cohort_results,
    revenue_results,
    cogs_results,
    opex_results,
    stmt_pos,               \* StatementsEngine.run: index of the month being computed
    prior,                  \* StatementsEngine.run: prior_cash, prior_ar, prior_ap,
                            \*   prior_deferred, prior_balance_sheet
    pnl_results,
    cashflow_results,
    balance_sheet_results,
    outputs,                \* what Orchestrator.run returned: ModelOutputs, or None
    first_outputs,          \* what the first Orchestrator's run returned
    now                     \* the wall clock read by datetime.now()

engine_vars == <<cohort_pos, prior_state, cohort_results, revenue_results, cogs_results,
                 opex_results, stmt_pos, prior, pnl_results, cashflow_results,
                 balance_sheet_results>>

vars == <<caller_inputs, run_settings, inputs, pc, run_no, engine_vars, outputs,
          first_outputs, now>>

\* CohortEngine.run, before the loops: results = {} and the first pair's prior_state.
cohort_run_init == [pos |-> <<1, 1, 1>>, prior_state |-> None, results |-> EmptyMap]

\* A variant of statements_run_init that starts from the balances the previous run left.
statements_run_init_stale(inp) ==
    IF prior = None
    THEN [prior_cash |-> inp.initial_cash, prior_ar |-> 0, prior_ap |-> 0,
          prior_deferred |-> 0, prior_balance_sheet |-> None]
    ELSE prior

\* A variant of statements_run_init that opens the run without cash.
statements_run_init_no_cash(inp) ==
    [prior_cash |-> 0,
     prior_ar |-> 0,
     prior_ap |-> 0,
     prior_deferred |-> 0,
     prior_balance_sheet |-> None]

\* StatementsEngine.run, before the loop: the run's initial balances.
statements_run_init(inp) ==
    [prior_cash |-> inp.initial_cash,
     prior_ar |-> 0,
     prior_ap |-> 0,
     prior_deferred |-> 0,
     prior_balance_sheet |-> None]

Init ==
    /\ \E override \in OverrideTables, retention \in RetentionTables,
          channel_terms \in ChannelTables, opex \in OpexTables,
          billing \in BillingTables, payables \in PayablesTables,
          balances \in InitialBalances :
            caller_inputs = ModelInputs(override, retention, channel_terms, opex,
                                        billing, payables, balances)
    /\ run_settings \in RunSettingsChoices
    /\ inputs = caller_inputs
    /\ pc = "construct"
    /\ run_no = 1
    /\ cohort_pos = <<1, 1, 1>>
    /\ prior_state = None
    /\ cohort_results = EmptyMap
    /\ revenue_results = EmptyMap
    /\ cogs_results = EmptyMap
    /\ opex_results = EmptyMap
    /\ stmt_pos = 1
    /\ prior = None
    /\ pnl_results = EmptyMap
    /\ cashflow_results = EmptyMap
    /\ balance_sheet_results = EmptyMap
    /\ outputs = None
    /\ first_outputs = None
    /\ now = 1

\* Orchestrator.__init__ followed by the entry of Orchestrator.run.
Construct ==
    /\ pc = "construct"
    /\ inputs' = apply_run_settings(inputs, effective_run_settings(inputs, run_settings))
    /\ cohort_pos' = cohort_run_init.pos
    /\ prior_state' = cohort_run_init.prior_state
    /\ cohort_results' = cohort_run_init.results
    /\ pc' = "cohorts"
    /\ UNCHANGED <<caller_inputs, run_settings, run_no, revenue_results, cogs_results,
                   opex_results, stmt_pos, prior, pnl_results, cashflow_results,
                   balance_sheet_results, outputs, first_outputs, now>>

\* A variant of next_prior_state that keeps the last state across (segment, channel) pairs.
next_prior_state_kept(state, last_month) == state

\* CohortEngine.run: `prior_state = state` after a month, and `prior_state = None` when the
\* next (segment, channel) pair begins.
next_prior_state(state, last_month) == IF last_month THEN None ELSE state

\* The CohortState of a calculate_cohort_state result that did not raise.
AsCohortState(st) == [f \in (DOMAIN st) \ {"raised"} |-> st[f]]

\* One iteration of the innermost loop of CohortEngine.run.
CohortStep ==
    /\ pc = "cohorts"
    /\ LET si == cohort_pos[1]
           ci == cohort_pos[2]
           mi == cohort_pos[3]
           month == inputs.months[mi]
           key == CohortKey(month, inputs.scenario_id, inputs.segments[si], inputs.channels[ci])
           st == calculate_cohort_state(inputs, month, inputs.scenario_id,
                                        inputs.segments[si], inputs.channels[ci],
                                        prior_state, mi - 1)
           last_month == mi = Len(inputs.months)
           last_channel == ci = Len(inputs.channels)
           last_segment == si = Len(inputs.segments)
       IN  IF st.raised
           THEN \* ValueError: propagates out of Orchestrator.run
                /\ pc' = "failed"
                /\ cohort_results' = EmptyMap
                /\ prior_state' = None
                /\ UNCHANGED cohort_pos
           ELSE /\ cohort_results' = (key :> AsCohortState(st)) @@ cohort_results
                /\ prior_state' = next_prior_state(AsCohortState(st), last_month)
                /\ cohort_pos' = IF ~last_month THEN <<si, ci, mi + 1>>
                                 ELSE IF ~last_channel THEN <<si, ci + 1, 1>>
                                 ELSE IF ~last_segment THEN <<si + 1, 1, 1>>
                                 ELSE cohort_pos
                /\ pc' = IF last_month /\ last_channel /\ last_segment
                         THEN "revenue" ELSE "cohorts"
    /\ UNCHANGED <<caller_inputs, run_settings, inputs, run_no, revenue_results,
                   cogs_results, opex_results, stmt_pos, prior, pnl_results,
                   cashflow_results, balance_sheet_results, outputs, first_outputs, now>>

\* Step 2 of Orchestrator.run.
RevenueRun ==
    /\ pc = "revenue"
    /\ revenue_results' = revenue_run(inputs, cohort_results)
    /\ pc' = "cogs"
    /\ UNCHANGED <<caller_inputs, run_settings, inputs, run_no, cohort_pos, prior_state,
                   cohort_results, cogs_results, opex_results, stmt_pos, prior,
                   pnl_results, cashflow_results, balance_sheet_results, outputs,
                   first_outputs, now>>

\* Step 3 of Orchestrator.run.
CogsRun ==
    /\ pc = "cogs"
    /\ cogs_results' = cogs_run(inputs, cohort_results, revenue_results)
    /\ pc' = "opex"
    /\ UNCHANGED <<caller_inputs, run_settings, inputs, run_no, cohort_pos, prior_state,
                   cohort_results, revenue_results, opex_results, stmt_pos, prior,
                   pnl_results, cashflow_results, balance_sheet_results, outputs,
                   first_outputs, now>>

\* Step 4 of Orchestrator.run, and the entry of StatementsEngine.run.
OpexRun ==
    /\ pc = "opex"
    /\ opex_results' = opex_run(inputs, inputs.months, inputs.scenario_id,
                                cohort_results, revenue_results)
    /\ stmt_pos' = 1
    /\ prior' = statements_run_init(inputs)
    /\ pnl_results' = EmptyMap
    /\ cashflow_results' = EmptyMap
    /\ balance_sheet_results' = EmptyMap
    /\ pc' = "statements"
    /\ UNCHANGED <<caller_inputs, run_settings, inputs, run_no, cohort_pos, prior_state,
                   cohort_results, revenue_results, cogs_results, outputs, first_outputs, now>>

\* A variant of carry_forward that carries the month's opening cash forward.
carry_forward_opening(cash_flow, balance_sheet) ==
    [prior_cash |-> cash_flow.cash_begin,
     prior_ar |-> balance_sheet.accounts_receivable,
     prior_ap |-> balance_sheet.accounts_payable,
     prior_deferred |-> balance_sheet.deferred_revenue,
     prior_balance_sheet |-> balance_sheet]

\* A variant of carry_forward that hands no AR and no AP to the next month's cash flow.
carry_forward_no_working_capital(cash_flow, balance_sheet) ==
    [prior_cash |-> cash_flow.cash_end,
     prior_ar |-> 0,
     prior_ap |-> 0,
     prior_deferred |-> balance_sheet.deferred_revenue,
     prior_balance_sheet |-> balance_sheet]

\* StatementsEngine.run, the end of an iteration: "Update prior values for next month".
carry_forward(cash_flow, balance_sheet) ==
    [prior_cash |-> cash_flow.cash_end,
     prior_ar |-> balance_sheet.accounts_receivable,
     prior_ap |-> balance_sheet.accounts_payable,
     prior_deferred |-> balance_sheet.deferred_revenue,
     prior_balance_sheet |-> balance_sheet]

\* One iteration of the loop of StatementsEngine.run.
StatementsStep ==
    /\ pc = "statements"
    /\ LET month == inputs.months[stmt_pos]
           scenario_id == inputs.scenario_id
           opex_breakdown == IF month \in DOMAIN opex_results
                             THEN opex_results[month] ELSE EmptyOpex
           pnl == aggregate_pnl(month, scenario_id, revenue_results, cogs_results,
                                opex_breakdown)
           cash_flow == calculate_cash_flow(inputs, scenario_id, pnl, prior.prior_cash,
                                            prior.prior_ar, prior.prior_ap,
                                            prior.prior_deferred)
           balance_sheet == calculate_balance_sheet(inputs, scenario_id, cash_flow,
                                                    prior.prior_balance_sheet, pnl)
       IN  /\ pnl_results' = (month :> pnl) @@ pnl_results
           /\ cashflow_results' = (month :> cash_flow) @@ cashflow_results
           /\ balance_sheet_results' = (month :> balance_sheet) @@ balance_sheet_results
           /\ prior' = carry_forward(cash_flow, balance_sheet)
    /\ stmt_pos' = stmt_pos + 1
    /\ pc' = IF stmt_pos = Len(inputs.months) THEN "validation" ELSE "statements"
    /\ UNCHANGED <<caller_inputs, run_settings, inputs, run_no, cohort_pos, prior_state,
                   cohort_results, revenue_results, cogs_results, opex_results, outputs,
                   first_outputs, now>>

\* A variant of ValidationRun in which a report with errors blocks the run.
ValidationRun_blocking ==
    /\ pc = "validation"
    /\ LET report == validation_run(inputs.scenario_id, inputs.months, cohort_results,
                                    revenue_results, cogs_results, pnl_results,
                                    cashflow_results, balance_sheet_results, now)
       IN  IF report.passed
           THEN /\ outputs' =
                    [cohort_results |-> cohort_results,
                     revenue_results |-> revenue_results,
                     cogs_results |-> cogs_results,
                     opex_results |-> opex_results,
                     pnl_results |-> pnl_results,
                     cashflow_results |-> cashflow_results,
                     balance_sheet_results |-> balance_sheet_results,
                     validation_report |-> report]
                /\ pc' = "done"
           ELSE /\ outputs' = None
                /\ pc' = "failed"
    /\ now' = now + 1
    /\ UNCHANGED <<caller_inputs, run_settings, inputs, run_no, engine_vars, first_outputs>>

\* Step 6 of Orchestrator.run and its return.
ValidationRun ==
    /\ pc = "validation"
    /\ outputs' =
        [cohort_results |-> cohort_results,
         revenue_results |-> revenue_results,
         cogs_results |-> cogs_results,
         opex_results |-> opex_results,
         pnl_results |-> pnl_results,
         cashflow_results |-> cashflow_results,
         balance_sheet_results |-> balance_sheet_results,
         validation_report |->
            validation_run(inputs.scenario_id, inputs.months, cohort_results,
                           revenue_results, cogs_results, pnl_results, cashflow_results,
                           balance_sheet_results, now)]
    /\ pc' = "done"
    /\ now' = now + 1
    /\ UNCHANGED <<caller_inputs, run_settings, inputs, run_no, engine_vars, first_outputs>>

\* A second Orchestrator is built with equal run settings, from the object the first one
\* was given or from a fresh copy of the caller's inputs.
SecondOrchestrator ==
    /\ pc \in {"done", "failed"}
    /\ run_no = 1
    /\ first_outputs' = outputs
    /\ outputs' = None
    /\ run_no' = 2
    /\ pc' = "construct"
    /\ inputs' \in {inputs, caller_inputs}
    /\ UNCHANGED <<caller_inputs, run_settings, engine_vars, now>>

Next ==
    \/ Construct
    \/ CohortStep
    \/ RevenueRun
    \/ CogsRun
    \/ OpexRun
    \/ StatementsStep
    \/ ValidationRun
    \/ SecondOrchestrator

Spec == Init /\ [][Next]_vars

(***************************************************************************)
(* ValidationEngine.run on arbitrary result mappings                       *)
(* The gates read only the fields given here.  Amounts are thousandths.    *)
(***************************************************************************)

CohortRow(active_logos, new_logos, churned_logos, retained_logos) ==
    [active_logos |-> active_logos, new_logos |-> new_logos,
     churned_logos |-> churned_logos, retained_logos |-> retained_logos]

\* Consistent rows; a negative active; churn above the prior actives (a warning only);
\* every cohort check violated on both rows; no rows at all.
ArbitraryCohorts ==
    LET k1 == Row(1, "direct")
        k2 == Row(2, "direct")
        good2 == k2 :> CohortRow(18000, 10000, 2000, 8000)
    IN  { (k1 :> CohortRow(10000, 10000, 0, 0)) @@ good2,
          (k1 :> CohortRow(-3000, 2000, 5000, -5000)) @@ good2,
          (k1 :> CohortRow(2000, 4000, 5000, -2000)) @@ good2,
          (k1 :> CohortRow(-1000, 1000, -2000, 5000))
                @@ (k2 :> CohortRow(-1000, 1000, -2000, 5000)),
          EmptyMap }

RevenueRow(mrr_base, mrr_packs, mrr_addons, mrr_total, arr, gross_revenue, channel_discount, net_revenue) ==
    [mrr_base |-> mrr_base, mrr_packs |-> mrr_packs, mrr_addons |-> mrr_addons,
     mrr_total |-> mrr_total, arr |-> arr, gross_revenue |-> gross_revenue,
     channel_discount |-> channel_discount, net_revenue |-> net_revenue]

\* Consistent rows; one row that breaks the three revenue identities; both rows do.
ArbitraryRevenues ==
    LET k1 == Row(1, "direct")
        k2 == Row(2, "direct")
        good == RevenueRow(1000, 500, 250, 1750, 21000, 2000, 200, 1800)
        bad == RevenueRow(1000, 500, 250, 1800, 21000, 2000, 200, 1900)
    IN  { (k1 :> good) @@ (k2 :> good),
          (k1 :> bad) @@ (k2 :> good),
          (k1 :> bad) @@ (k2 :> bad) }

COGSRow(cogs_llm_tokens, cogs_variable_total, cogs_fixed_total, cogs_services_total, cogs_total) ==
    [cogs_llm_tokens |-> cogs_llm_tokens, cogs_embeddings |-> 100, cogs_compute |-> 50,
     cogs_storage |-> 20, cogs_support |-> 30,
     cogs_variable_total |-> cogs_variable_total, cogs_fixed_total |-> cogs_fixed_total,
     cogs_services_total |-> cogs_services_total, cogs_total |-> cogs_total]

\* Consistent rows; one row that breaks both COGS identities.
ArbitraryCogs ==
    LET k1 == Row(1, "direct")
        k2 == Row(2, "direct")
        good == COGSRow(300, 500, 1000, 250, 1750)
        bad == COGSRow(400, 500, 1000, 250, 1800)
    IN  { (k1 :> good) @@ (k2 :> good),
          (k1 :> good) @@ (k2 :> bad) }

PnLRow(net_revenue, cogs_total, channel_payouts, gross_profit, opex_total, ebitda) ==
    [net_revenue |-> net_revenue, cogs_total |-> cogs_total,
     channel_payouts |-> channel_payouts, gross_profit |-> gross_profit,
     opex_total |-> opex_total, ebitda |-> ebitda]

\* Consistent months; a month that breaks both P&L identities.
ArbitraryPnLs ==
    LET good == PnLRow(5000, 2000, 500, 2500, 1000, 1500)
        bad == PnLRow(5000, 2000, 500, 3000, 1000, 1500)
    IN  { (1 :> good) @@ (2 :> good),
          (1 :> bad) @@ (2 :> good) }

CashRow(cash_begin, cash_from_operations, cash_end) ==
    [cash_begin |-> cash_begin, cash_from_operations |-> cash_from_operations,
     cash_end |-> cash_end]

\* Month 1 is 100 + 10 = 110.  Month 2: consistent; a roll-forward mismatch; a continuity
\* break; both at once; and a mapping without month 1.
ArbitraryCashflows ==
    LET first == 1 :> CashRow(100000, 10000, 110000)
    IN  { first @@ (2 :> CashRow(110000, 5000, 115000)),
          first @@ (2 :> CashRow(110000, 5000, 120000)),
          first @@ (2 :> CashRow(100000, 5000, 105000)),
          first @@ (2 :> CashRow(100000, 5000, 120000)),
          2 :> CashRow(100000, 5000, 120000) }

SheetRow(total_assets, total_liabilities_equity) ==
    [total_assets |-> total_assets, total_liabilities_equity |-> total_liabilities_equity,
     total_liabilities |-> 0, total_equity |-> total_liabilities_equity]

\* Balanced sheets; a sheet 0.02 out of balance next to one exactly 0.01 out.
ArbitrarySheets ==
    { (1 :> SheetRow(100000, 100000)) @@ (2 :> SheetRow(120000, 120000)),
      (1 :> SheetRow(100000, 100020)) @@ (2 :> SheetRow(120000, 119990)) }

\* The state in which Orchestrator.run hands the result mappings to ValidationEngine.run.
InitValidation ==
    /\ caller_inputs = ModelInputs({}, {}, {}, {}, {}, {}, <<100000, 100000>>)
    /\ run_settings = None
    /\ inputs = apply_run_settings(caller_inputs,
                                   effective_run_settings(caller_inputs, run_settings))
    /\ pc = "validation"
    /\ run_no = 1
    /\ cohort_pos = <<1, 1, 1>>
    /\ prior_state = None
    /\ cohort_results \in ArbitraryCohorts
    /\ revenue_results \in ArbitraryRevenues
    /\ cogs_results \in ArbitraryCogs
    /\ opex_results = EmptyMap
    /\ stmt_pos = 1
    /\ prior = None
    /\ pnl_results \in ArbitraryPnLs
    /\ cashflow_results \in ArbitraryCashflows
    /\ balance_sheet_results \in ArbitrarySheets
    /\ outputs = None
    /\ first_outputs = None
    /\ now = 1

NextValidation == ValidationRun

SpecValidation == InitValidation /\ [][NextValidation]_vars

(***************************************************************************)
(* StatementsEngine.run on given engine results                            *)
(* One (segment, channel) key a month; the engine reads only these fields. *)
(***************************************************************************)

StatementRevenues(mrr_total, channel_payout) ==
    [k \in {Row(m, "direct") : m \in 1..NumMonths} |->
        [mrr_total |-> mrr_total[k.month], usage_revenue |-> 0, services_total |-> 0,
         channel_discount |-> 0, channel_payout |-> channel_payout[k.month]]]

\* 100 of subscriptions every month; 0.02 then 0.10 a month; 30 and a payout of 3 in the
\* first month and nothing afterwards.
StatementRevenueChoices ==
    { StatementRevenues([m \in 1..NumMonths |-> 100000], [m \in 1..NumMonths |-> 0]),
      StatementRevenues([m \in 1..NumMonths |-> IF m = 1 THEN 20 ELSE 100],
                        [m \in 1..NumMonths |-> 0]),
      StatementRevenues([m \in 1..NumMonths |-> IF m = 1 THEN 30000 ELSE 0],
                        [m \in 1..NumMonths |-> IF m = 1 THEN 3000 ELSE 0]) }

StatementCogs(cogs_fixed_total) ==
    [k \in {Row(m, "direct") : m \in 1..NumMonths} |->
        [cogs_variable_total |-> 0, cogs_fixed_total |-> cogs_fixed_total[k.month],
         cogs_services_total |-> 0]]

StatementOpex(opex_non_hc_total) ==
    [m \in 1..NumMonths |->
        [EmptyOpex EXCEPT !.opex_non_hc_total = opex_non_hc_total[m],
                          !.opex_total = opex_non_hc_total[m]]]

\* (COGS, opex): 10 and 20 every month; 10 and 20 in the first month only; none.
StatementExpenseChoices ==
    { <<StatementCogs([m \in 1..NumMonths |-> 10000]),
        StatementOpex([m \in 1..NumMonths |-> 20000])>>,
      <<StatementCogs([m \in 1..NumMonths |-> IF m = 1 THEN 10000 ELSE 0]),
        StatementOpex([m \in 1..NumMonths |-> IF m = 1 THEN 20000 ELSE 0])>>,
      <<StatementCogs([m \in 1..NumMonths |-> 0]),
        StatementOpex([m \in 1..NumMonths |-> 0])>> }

\* payables: none, DPO 45, DPO 60.
StatementPayables == PayablesTables \cup { {[scenario_id |-> "base", dpo_days |-> 60]} }

InitStatements ==
    /\ \E billing \in BillingTables, payables \in StatementPayables,
          balances \in InitialBalances :
            caller_inputs = ModelInputs({}, {}, {}, {}, billing, payables, balances)
    /\ run_settings = None
    /\ inputs = apply_run_settings(caller_inputs,
                                   effective_run_settings(caller_inputs, run_settings))
    /\ pc = "statements"
    /\ run_no = 1
    /\ cohort_pos = <<1, 1, 1>>
    /\ prior_state = None
    /\ cohort_results = EmptyMap
    /\ revenue_results \in StatementRevenueChoices
    /\ \E expenses \in StatementExpenseChoices :
            /\ cogs_results = expenses[1]
            /\ opex_results = expenses[2]
    /\ stmt_pos = 1
    /\ prior = statements_run_init(inputs)
    /\ pnl_results = EmptyMap
    /\ cashflow_results = EmptyMap
    /\ balance_sheet_results = EmptyMap
    /\ outputs = None
    /\ first_outputs = None
    /\ now = 1

NextStatements == StatementsStep

SpecStatements == InitStatements /\ [][NextStatements]_vars

(***************************************************************************)
(* StatementsEngine.run without billing and payables terms                 *)
(***************************************************************************)

\* Whole-cent revenues: 100 of subscriptions every month; 30 and a payout of 3 in the first
\* month and nothing afterwards; 100 every month resold at a discount of 10.
PlugRevenueChoices ==
    LET flat == StatementRevenues([m \in 1..NumMonths |-> 100000], [m \in 1..NumMonths |-> 0])
    IN  { flat,
          StatementRevenues([m \in 1..NumMonths |-> IF m = 1 THEN 30000 ELSE 0],
                            [m \in 1..NumMonths |-> IF m = 1 THEN 3000 ELSE 0]),
          [k \in DOMAIN flat |-> [flat[k] EXCEPT !.channel_discount = 10000]] }

\* (initial_cash, initial_contributed_capital): equal; cash above and below the capital by
\* 50; cash 0.01 below the capital.
PlugBalances ==
    { <<100000, 100000>>, <<100000, 50000>>, <<50000, 100000>>, <<100000, 100010>> }

InitPlug ==
    /\ \E balances \in PlugBalances :
            caller_inputs = ModelInputs({}, {}, {}, {}, {}, {}, balances)
    /\ run_settings = None
    /\ inputs = apply_run_settings(caller_inputs,
                                   effective_run_settings(caller_inputs, run_settings))
    /\ pc = "statements"
    /\ run_no = 1
    /\ cohort_pos = <<1, 1, 1>>
    /\ prior_state = None
    /\ cohort_results = EmptyMap
    /\ revenue_results \in PlugRevenueChoices
    /\ \E expenses \in StatementExpenseChoices :
            /\ cogs_results = expenses[1]
            /\ opex_results = expenses[2]
    /\ stmt_pos = 1
    /\ prior = statements_run_init(inputs)
    /\ pnl_results = EmptyMap
    /\ cashflow_results = EmptyMap
    /\ balance_sheet_results = EmptyMap
    /\ outputs = None
    /\ first_outputs = None
    /\ now = 1

SpecPlug == InitPlug /\ [][NextStatements]_vars

(***************************************************************************)
(* CohortEngine.run on its own, over channel lists in either order         *)
(***************************************************************************)

\* new_logos_override: as above, or 10 direct logos every month next to a partner that
\* wins 100 logos in the first month and none afterwards.
CohortOverrideTables ==
    OverrideTables
    \cup { {Row(m, "direct") @@ [new_logos |-> 10] : m \in 1..NumMonths}
           \cup {Row(m, "partner") @@ [new_logos |-> IF m = 1 THEN 100 ELSE 0]
                    : m \in 1..NumMonths} }

\* funnel_assumptions: the table above, or none.
CohortFunnelTables == { FunnelTable, {} }

\* retention_assumptions: as above, or 10% churn for the partner channel only.
CohortRetentionTables ==
    RetentionTables \cup { {Terms("partner") @@ [logo_churn_m |-> 100]} }

\* inputs.channels: both channels in either order, or one of them alone.
ChannelLists == { <<"direct", "partner">>, <<"partner", "direct">>, <<"direct">>, <<"partner">> }

InitCohorts ==
    /\ \E override \in CohortOverrideTables, funnel \in CohortFunnelTables,
          retention \in CohortRetentionTables, channels \in ChannelLists :
            caller_inputs =
                [ModelInputs(override, retention, {}, {}, {}, {}, <<100000, 100000>>)
                    EXCEPT !.funnel_assumptions = funnel, !.channels = channels]
    /\ run_settings \in RunSettingsChoices
    /\ inputs = caller_inputs
    /\ pc = "construct"
    /\ run_no = 1
    /\ cohort_pos = <<1, 1, 1>>
    /\ prior_state = None
    /\ cohort_results = EmptyMap
    /\ revenue_results = EmptyMap
    /\ cogs_results = EmptyMap
    /\ opex_results = EmptyMap
    /\ stmt_pos = 1
    /\ prior = None
    /\ pnl_results = EmptyMap
    /\ cashflow_results = EmptyMap
    /\ balance_sheet_results = EmptyMap
    /\ outputs = None
    /\ first_outputs = None
    /\ now = 1

NextCohorts == Construct \/ CohortStep

SpecCohorts == InitCohorts /\ [][NextCohorts]_vars

(***************************************************************************)
(* The iterations of CohortEngine.run taken pair by pair in any order:     *)
(* each (segment, channel) pair advances through its months in order, and  *)
(* the pairs may be taken in any order and interleaved month by month.     *)
(***************************************************************************)

\* The months of the pair already computed.
months_done(results, segment_id, channel_id) ==
    Cardinality({k \in DOMAIN results :
                    k.segment_id = segment_id /\ k.channel_id = channel_id})

\* A variant of pair_prior_state that keeps one prior_state for all pairs: the state
\* computed last, whichever pair it belongs to.
pair_prior_state_shared(inp, results, segment_id, channel_id) ==
    IF months_done(results, segment_id, channel_id) = 0 THEN None ELSE prior_state

\* prior_state of the pair: None before its first month, then the state of the month
\* computed last for this pair.
pair_prior_state(inp, results, segment_id, channel_id) ==
    LET done == months_done(results, segment_id, channel_id)
    IN  IF done = 0 THEN None
        ELSE results[CohortKey(inp.months[done], inp.scenario_id, segment_id, channel_id)]

\* The loop body of CohortEngine.run for the next month of any unfinished pair.
CohortStepAnyPair ==
    /\ pc = "cohorts"
    /\ \E si \in 1..Len(inputs.segments), ci \in 1..Len(inputs.channels) :
        LET segment_id == inputs.segments[si]
            channel_id == inputs.channels[ci]
            mi == months_done(cohort_results, segment_id, channel_id) + 1
            total == Len(inputs.segments) * Len(inputs.channels) * Len(inputs.months)
        IN  /\ mi <= Len(inputs.months)
            /\ LET month == inputs.months[mi]
                   key == CohortKey(month, inputs.scenario_id, segment_id, channel_id)
                   st == calculate_cohort_state(
                            inputs, month, inputs.scenario_id, segment_id, channel_id,
                            pair_prior_state(inputs, cohort_results, segment_id, channel_id),
                            mi - 1)
               IN  IF st.raised
                   THEN /\ pc' = "failed"
                        /\ cohort_results' = EmptyMap
                        /\ prior_state' = None
                   ELSE /\ cohort_results' = (key :> AsCohortState(st)) @@ cohort_results
                        /\ prior_state' = AsCohortState(st)
                        /\ pc' = IF Cardinality(DOMAIN cohort_results) + 1 = total
                                 THEN "revenue" ELSE "cohorts"
    /\ UNCHANGED <<caller_inputs, run_settings, inputs, run_no, cohort_pos, revenue_results,
                   cogs_results, opex_results, stmt_pos, prior, pnl_results,
                   cashflow_results, balance_sheet_results, outputs, first_outputs, now>>

NextCohortsAnyOrder == Construct \/ CohortStepAnyPair

SpecCohortsAnyOrder == InitCohorts /\ [][NextCohortsAnyOrder]_vars

(***************************************************************************)
(* Runs over hiring plans                                                  *)
(***************************************************************************)

HireRow(month, function, hires, fully_loaded_annual, ramp_months) ==
    [month |-> month, scenario_id |-> "base", function |-> function, hires |-> hires,
     fully_loaded_annual |-> fully_loaded_annual, ramp_months |-> ramp_months]

\* headcount_plan: none; the plan above; 4 engineers at 120000 a year with a 4-month ramp
\* next to a salesperson at 12000 with a 1-month ramp; two engineering hire events, the
\* first without a ramp.
HeadcountPlans ==
    { {},
      HeadcountPlan,
      {HireRow(1, "eng", 4, 120000000, 4), HireRow(1, "sales", 1, 12000000, 1)},
      {HireRow(1, "eng", 1, 12000000, 0), HireRow(2, "eng", 3, 36000000, 1)} }

InitHeadcount ==
    /\ \E headcount_plan \in HeadcountPlans :
            caller_inputs =
                [ModelInputs({}, {}, {}, {}, {}, {}, <<100000, 100000>>)
                    EXCEPT !.headcount_plan = headcount_plan]
    /\ run_settings \in RunSettingsChoices
    /\ inputs = caller_inputs
    /\ pc = "construct"
    /\ run_no = 1
    /\ cohort_pos = <<1, 1, 1>>
    /\ prior_state = None
    /\ cohort_results = EmptyMap
    /\ revenue_results = EmptyMap
    /\ cogs_results = EmptyMap
    /\ opex_results = EmptyMap
    /\ stmt_pos = 1
    /\ prior = None
    /\ pnl_results = EmptyMap
    /\ cashflow_results = EmptyMap
    /\ balance_sheet_results = EmptyMap
    /\ outputs = None
    /\ first_outputs = None
    /\ now = 1

SpecHeadcount == InitHeadcount /\ [][Next]_vars

(***************************************************************************)
(* Runs over inputs with and without each reference table                  *)
(***************************************************************************)

\* channel_terms: no rows at all, or one of the tables above.
ReferenceChannelTables == ChannelTables \cup { {} }

InitReferenceData ==
    /\ \E override \in { {}, {Row(m, "direct") @@ [new_logos |-> 10] : m \in 1..NumMonths} },
          funnel \in CohortFunnelTables,
          retention \in { {}, {Terms(c) @@ [logo_churn_m |-> 100] : c \in {"direct", "partner"}} },
          channel_terms \in ReferenceChannelTables,
          billing \in BillingTables, payables \in PayablesTables :
            caller_inputs =
                [ModelInputs(override, retention, channel_terms, {}, billing, payables,
                             <<100000, 100000>>)
                    EXCEPT !.funnel_assumptions = funnel]
    /\ run_settings \in RunSettingsChoices
    /\ inputs = caller_inputs
    /\ pc = "construct"
    /\ run_no = 1
    /\ cohort_pos = <<1, 1, 1>>
    /\ prior_state = None
    /\ cohort_results = EmptyMap
    /\ revenue_results = EmptyMap
    /\ cogs_results = EmptyMap
    /\ opex_results = EmptyMap
    /\ stmt_pos = 1
    /\ prior = None
    /\ pnl_results = EmptyMap
    /\ cashflow_results = EmptyMap
    /\ balance_sheet_results = EmptyMap
    /\ outputs = None
    /\ first_outputs = None
    /\ now = 1

SpecReferenceData == InitReferenceData /\ [][Next]_vars

(***************************************************************************)
(* Two Orchestrators over one ModelInputs object, each with its own        *)
(* RunSettings                                                             *)
(***************************************************************************)

\* RunSettings: None; a window that drops the first month; the first month alone; a window
\* that starts after the last month of the month list.
RunSettingsWindows ==
    RunSettingsChoices
    \cup { [scenario_id |-> "base", start_month |-> 1, end_month |-> 1],
           [scenario_id |-> "base", start_month |-> NumMonths + 1,
            end_month |-> NumMonths + 2] }

InitRunSettings ==
    /\ \E override \in OverrideTables, opex \in OpexTables :
            caller_inputs = ModelInputs(override, {}, {}, opex, {}, {}, <<100000, 100000>>)
    /\ run_settings \in RunSettingsWindows
    /\ inputs = caller_inputs
    /\ pc = "construct"
    /\ run_no = 1
    /\ cohort_pos = <<1, 1, 1>>
    /\ prior_state = None
    /\ cohort_results = EmptyMap
    /\ revenue_results = EmptyMap
    /\ cogs_results = EmptyMap
    /\ opex_results = EmptyMap
    /\ stmt_pos = 1
    /\ prior = None
    /\ pnl_results = EmptyMap
    /\ cashflow_results = EmptyMap
    /\ balance_sheet_results = EmptyMap
    /\ outputs = None
    /\ first_outputs = None
    /\ now = 1

\* A second Orchestrator is built with RunSettings of its own, from the object the first one
\* was given or from a fresh copy of the caller's inputs.
SecondOrchestratorOtherSettings ==
    /\ pc \in {"done", "failed"}
    /\ run_no = 1
    /\ first_outputs' = outputs
    /\ outputs' = None
    /\ run_no' = 2
    /\ pc' = "construct"
    /\ run_settings' \in RunSettingsWindows
    /\ inputs' \in {inputs, caller_inputs}
    /\ UNCHANGED <<caller_inputs, engine_vars, now>>

NextRunSettings ==
    \/ Construct
    \/ CohortStep
    \/ RevenueRun
    \/ CogsRun
    \/ OpexRun
    \/ StatementsStep
    \/ ValidationRun
    \/ SecondOrchestratorOtherSettings

SpecRunSettings == InitRunSettings /\ [][NextRunSettings]_vars

(***************************************************************************)
(* Properties                                                              *)
(***************************************************************************)

\* The month before month m in the run's month list (m itself for the first month).
IndexOfMonth(m) == CHOOSE i \in 1..Len(inputs.months) : inputs.months[i] = m
IsFirstMonth(m) == IndexOfMonth(m) = 1
PrecedingMonth(m) == inputs.months[Max(IndexOfMonth(m) - 1, 1)]

\* The records of gate number g in the returned report.
GateResults(g) == outputs.validation_report.results[g]

GatePasses(g) ==
    /\ Cardinality(GateResults(g)) = 1
    /\ \A r \in GateResults(g) : r.passed /\ r.severity = "info"

\* C1: every balance sheet the statements engine produces has
\* abs(total_assets - (total_liabilities + total_equity)) <= 0.01, and the
\* balance_sheet_balances gate of the run's report holds only its pass record.
C1_BalanceSheetBalances ==
    /\ \A m \in DOMAIN balance_sheet_results :
            LET bs == balance_sheet_results[m]
            IN  /\ Abs(bs.total_assets - (bs.total_liabilities + bs.total_equity)) <= Tolerance
                /\ Abs(bs.total_assets - bs.total_liabilities_equity) <= Tolerance
    /\ pc = "done" => GatePasses(12)

\* A finished run in which the plug changed some month's retained earnings.
C1_Witness ==
    /\ pc = "done"
    /\ \E m \in DOMAIN balance_sheet_results :
            LET prior_retained ==
                    IF IsFirstMonth(m) THEN 0
                    ELSE balance_sheet_results[PrecedingMonth(m)].retained_earnings
            IN  balance_sheet_results[m].retained_earnings
                    # prior_retained + pnl_results[m].ebitda

\* C2: the first month's cash_begin is initial_cash, every later month's cash_begin is the
\* previous month's cash_end, and cash_end = cash_begin + cash_from_operations within 0.01.
C2_CashRollForward ==
    pc \in {"statements", "validation", "done"} =>
        \A m \in DOMAIN cashflow_results :
            LET cf == cashflow_results[m]
            IN  /\ IsFirstMonth(m) => cf.cash_begin = inputs.initial_cash
                /\ ~IsFirstMonth(m) =>
                        cf.cash_begin = cashflow_results[PrecedingMonth(m)].cash_end
                /\ Abs(cf.cash_begin + cf.cash_from_operations - cf.cash_end) <= Tolerance

\* A finished run of at least two months whose cash moved in the second month and whose
\* first month's cash_end was rounded.
C2_Witness ==
    /\ pc = "done"
    /\ Len(inputs.months) >= 2
    /\ cashflow_results[inputs.months[2]].cash_from_operations # 0
    /\ LET cf == cashflow_results[inputs.months[1]]
       IN  cf.cash_begin + cf.cash_from_operations # cf.cash_end

\* C3: every cohort state has active = retained + new and retained = prior_active - churned,
\* prior_active being the same pair's active logos of the preceding month, 0 in the first.
C3_CohortFlow ==
    pc \in {"cohorts", "revenue", "cogs", "opex", "statements", "validation", "done"} =>
        \A k \in DOMAIN cohort_results :
            LET st == cohort_results[k]
                prior_active ==
                    IF IsFirstMonth(k.month) THEN 0
                    ELSE cohort_results[CohortKey(PrecedingMonth(k.month), k.scenario_id,
                                                  k.segment_id, k.channel_id)].active_logos
            IN  /\ st.active_logos = st.retained_logos + st.new_logos
                /\ st.retained_logos = prior_active - st.churned_logos

\* A later month of a pair with churn and new logos, and the next pair already started.
C3_Witness ==
    /\ pc = "cohorts"
    /\ cohort_pos[2] = 2
    /\ \E k \in DOMAIN cohort_results :
            /\ ~IsFirstMonth(k.month)
            /\ cohort_results[k].churned_logos > 0
            /\ cohort_results[k].new_logos > 0

\* retained + new of the (segment, channel, month) that CohortEngine.run is about to compute.
NextActiveLogos ==
    LET segment_id == inputs.segments[cohort_pos[1]]
        channel_id == inputs.channels[cohort_pos[2]]
        month == inputs.months[cohort_pos[3]]
        prior_active == IF prior_state = None THEN 0 ELSE prior_state.active_logos
    IN  prior_active
        - calculate_churn(inputs, prior_active, inputs.scenario_id, segment_id, channel_id)
        + calculate_new_logos(inputs, month, inputs.scenario_id, segment_id, channel_id)

\* C4: when the active logos of a (month, segment, channel) come out negative the run is
\* aborted with nothing returned, no state is stored for that key, and a run that was
\* aborted returns nothing afterwards either.
C4_NegativeActivesAbort ==
    [][/\ (pc = "cohorts" /\ NextActiveLogos < 0) =>
            /\ pc' = "failed"
            /\ outputs' = None
            /\ cohort_results' = EmptyMap
       /\ (pc = "cohorts" /\ NextActiveLogos >= 0) => pc' # "failed"
       /\ (pc = "failed" /\ pc' # "failed") => (pc' = "construct" /\ first_outputs' = None)
      ]_vars

\* A first run aborted after some cohort states had been computed.
C4_Witness ==
    /\ pc = "failed"
    /\ run_no = 1
    /\ outputs = None
    /\ cohort_pos # <<1, 1, 1>>

\* C5: for every cohort key mrr_total = mrr_base + mrr_packs + mrr_addons,
\* arr = mrr_total * 12, net_revenue = gross_revenue - channel_discount and
\* cogs_total = cogs_variable_total + cogs_fixed_total + cogs_services_total, within 0.01.
C5_KeyIdentities ==
    /\ \A k \in DOMAIN revenue_results :
            LET r == revenue_results[k]
            IN  /\ Abs(r.mrr_base + r.mrr_packs + r.mrr_addons - r.mrr_total) <= Tolerance
                /\ Abs(r.mrr_total * 12 - r.arr) <= Tolerance
                /\ Abs(r.gross_revenue - r.channel_discount - r.net_revenue) <= Tolerance
    /\ \A k \in DOMAIN cogs_results :
            LET c == cogs_results[k]
            IN  Abs(c.cogs_variable_total + c.cogs_fixed_total + c.cogs_services_total
                    - c.cogs_total) <= Tolerance

\* A key whose resale discount was taken and whose rounded net revenue is a cent away from
\* gross_revenue - channel_discount, with COGS computed for it.
C5_Witness ==
    \E k \in DOMAIN revenue_results \cap DOMAIN cogs_results :
        /\ revenue_results[k].channel_discount > 0
        /\ revenue_results[k].net_revenue
                # revenue_results[k].gross_revenue - revenue_results[k].channel_discount
        /\ revenue_results[k].mrr_packs > 0
        /\ cogs_results[k].cogs_total > 0

ViolatingRows(g) ==
    LET co == cohort_results
        rv == revenue_results
        cg == cogs_results
        pl == pnl_results
        bs == balance_sheet_results
        off(x) == Abs(x) > Tolerance
    IN  CASE g = 1 -> {k \in DOMAIN co : co[k].active_logos < 0}
          [] g = 2 -> {k \in DOMAIN co :
                        \/ co[k].churned_logos < 0
                        \/ /\ co[k].retained_logos < 0
                           /\ co[k].retained_logos + co[k].churned_logos > 0}
          [] g = 3 -> {k \in DOMAIN co :
                        off(co[k].retained_logos + co[k].new_logos - co[k].active_logos)}
          [] g = 4 -> {k \in DOMAIN rv :
                        off(rv[k].mrr_base + rv[k].mrr_packs + rv[k].mrr_addons
                            - rv[k].mrr_total)}
          [] g = 5 -> {k \in DOMAIN rv : off(rv[k].mrr_total * 12 - rv[k].arr)}
          [] g = 6 -> {k \in DOMAIN rv :
                        off(rv[k].gross_revenue - rv[k].channel_discount - rv[k].net_revenue)}
          [] g = 7 -> {k \in DOMAIN cg :
                        off(cg[k].cogs_variable_total + cg[k].cogs_fixed_total
                            + cg[k].cogs_services_total - cg[k].cogs_total)}
          [] g = 8 -> {k \in DOMAIN cg :
                        off(cg[k].cogs_llm_tokens + cg[k].cogs_embeddings + cg[k].cogs_compute
                            + cg[k].cogs_storage + cg[k].cogs_support
                            - cg[k].cogs_variable_total)}
          [] g = 9 -> {m \in DOMAIN pl :
                        off(pl[m].net_revenue - pl[m].cogs_total - pl[m].channel_payouts
                            - pl[m].gross_profit)}
          [] g = 10 -> {m \in DOMAIN pl :
                        off(pl[m].gross_profit - pl[m].opex_total - pl[m].ebitda)}
          [] g = 12 -> {m \in DOMAIN bs :
                        off(bs[m].total_assets - bs[m].total_liabilities_equity)}

\* The months whose cash does not roll forward, and those whose opening cash breaks with
\* the preceding month's closing cash.
RollForwardMismatches ==
    {m \in DOMAIN cashflow_results \cap Range(inputs.months) :
        Abs(cashflow_results[m].cash_begin + cashflow_results[m].cash_from_operations
            - cashflow_results[m].cash_end) > Tolerance}

ContinuityBreaks ==
    {m \in DOMAIN cashflow_results \cap Range(inputs.months) :
        /\ ~IsFirstMonth(m)
        /\ PrecedingMonth(m) \in DOMAIN cashflow_results
        /\ Abs(cashflow_results[m].cash_begin - cashflow_results[PrecedingMonth(m)].cash_end)
                > Tolerance}

\* One pass record when no row violates, otherwise one failed record per violating row.
OneRecordPerRow(results, rows) ==
    IF rows = {}
    THEN /\ Cardinality(results) = 1
         /\ \A r \in results : r.passed /\ r.severity = "info"
    ELSE /\ \A r \in results : ~r.passed /\ r.severity \in {"error", "warning"}
         /\ Cardinality(results) = Cardinality(rows)
         /\ \A v \in rows : Cardinality({r \in results : r.row = v}) = 1

\* C7 as stated: each of the twelve gates returns exactly one info pass record when no row
\* violates it, and otherwise exactly one failed record per violating row.
C7_OneRecordPerViolatingRow ==
    pc = "done" =>
        /\ \A g \in (1..12) \ {11} : OneRecordPerRow(GateResults(g), ViolatingRows(g))
        /\ OneRecordPerRow(GateResults(11), RollForwardMismatches \cup ContinuityBreaks)

\* C7 as the code has it: eleven gates return one pass record or one failed record per
\* violating row; validate_cash_roll_forward makes two checks per month and returns one
\* pass record when both hold everywhere, otherwise one "cash_roll_forward" error per
\* month that fails the roll-forward and one "cash_continuity" error per month that
\* fails continuity, so a month failing both gets two records.
C7_OneRecordPerFailedCheck ==
    pc = "done" =>
        /\ \A g \in (1..12) \ {11} : OneRecordPerRow(GateResults(g), ViolatingRows(g))
        /\ LET results == GateResults(11)
               of_gate(id) == {r \in results : r.gate_id = id}
           IN  IF RollForwardMismatches \cup ContinuityBreaks = {}
               THEN GatePasses(11)
               ELSE /\ \A r \in results :
                            /\ ~r.passed
                            /\ r.severity = "error"
                            /\ r.gate_id \in {"cash_roll_forward", "cash_continuity"}
                    /\ Cardinality(of_gate("cash_roll_forward"))
                            = Cardinality(RollForwardMismatches)
                    /\ \A m \in RollForwardMismatches :
                            \E r \in of_gate("cash_roll_forward") : r.row = m
                    /\ Cardinality(of_gate("cash_continuity")) = Cardinality(ContinuityBreaks)
                    /\ \A m \in ContinuityBreaks :
                            \E r \in of_gate("cash_continuity") : r.row = m

\* A report in which one month has both a roll-forward and a continuity record, next to a
\* gate with a warning and gates that pass.
C7_Witness ==
    /\ pc = "done"
    /\ RollForwardMismatches \cap ContinuityBreaks # {}
    /\ Cardinality(GateResults(11)) = 2
    /\ \E r \in GateResults(2) : r.severity = "warning"
    /\ GatePasses(12)

\* The failed records of a severity in the returned report, counted gate by gate.
FailedCount(severity) ==
    SumOver(1..12, [g \in 1..12 |->
        Cardinality({r \in GateResults(g) : ~r.passed /\ r.severity = severity})])

\* C8: a report's passed flag is true exactly when it holds no failed error record;
\* error_count and warning_count count the failed error and warning records.
C8_ReportCounts ==
    pc = "done" =>
        LET report == outputs.validation_report
        IN  /\ report.passed <=> (\A g \in 1..12 : \A r \in GateResults(g) :
                                    r.passed \/ r.severity # "error")
            /\ report.error_count = FailedCount("error")
            /\ report.warning_count = FailedCount("warning")

\* A report that passed although it holds a failed warning record.
C8_Witness ==
    /\ pc = "done"
    /\ outputs.validation_report.passed
    /\ outputs.validation_report.warning_count > 0
    /\ outputs.validation_report.error_count = 0

ResultSignature(report) ==
    [g \in DOMAIN report.results |->
        {[gate_id |-> r.gate_id, severity |-> r.severity, passed |-> r.passed, row |-> r.row]
            : r \in report.results[g]}]

PriorSheetAR(m) ==
    IF IsFirstMonth(m) THEN 0 ELSE balance_sheet_results[PrecedingMonth(m)].accounts_receivable
PriorSheetAP(m) ==
    IF IsFirstMonth(m) THEN 0 ELSE balance_sheet_results[PrecedingMonth(m)].accounts_payable
PriorSheetDeferred(m) ==
    IF IsFirstMonth(m) THEN 0 ELSE balance_sheet_results[PrecedingMonth(m)].deferred_revenue
PriorSheetRetained(m) ==
    IF IsFirstMonth(m) THEN 0 ELSE balance_sheet_results[PrecedingMonth(m)].retained_earnings

BillingTerms == billing_terms_of(inputs, inputs.scenario_id)
PayablesTerms == payables_terms_of(inputs, inputs.scenario_id)

\* C11: when billing terms exist, every month's ending AR is revenue_total * dso_days / 30 to
\* the cent, its collections are never negative and are within 0.01 of
\* max(0, (prior AR + revenue_total - ending AR) * (1 - bad_debt_pct)); with DSO 60 and no
\* prior AR the ending AR is twice the month's billings and the collections are 0.
C11_Collections ==
    \A t \in BillingTerms : \A m \in DOMAIN cashflow_results :
        LET revenue_total == pnl_results[m].revenue_total
            ending_ar == balance_sheet_results[m].accounts_receivable
            collections == cashflow_results[m].collections
            collected == (PriorSheetAR(m) + revenue_total - ending_ar) * (Scale - t.bad_debt_pct)
        IN  /\ 2 * Abs(30 * ending_ar - revenue_total * t.dso_days) <= 30 * Cent
            /\ collections >= 0
            /\ Abs(collections * Scale - Max(collected, 0)) <= Tolerance * Scale
            /\ (t.dso_days = 60 /\ PriorSheetAR(m) = 0) =>
                    ending_ar = 2 * revenue_total /\ collections = 0

\* A first month billing 100 at DSO 60 (ending AR 200, nothing collected), followed by a
\* month that collects.
C11_Witness ==
    /\ \E t \in BillingTerms : t.dso_days = 60
    /\ \E m \in DOMAIN cashflow_results :
            /\ IsFirstMonth(m)
            /\ pnl_results[m].revenue_total = 100000
            /\ balance_sheet_results[m].accounts_receivable = 200000
            /\ cashflow_results[m].collections = 0
    /\ \E m \in DOMAIN cashflow_results :
            PriorSheetAR(m) > 0 /\ cashflow_results[m].collections > 0

\* The three category disbursements of month m, and the month's total expenses.
DisbursementsOf(m) ==
    <<cashflow_results[m].disbursements_cogs, cashflow_results[m].disbursements_opex,
      cashflow_results[m].disbursements_channel>>
ExpensesOf(m) ==
    <<pnl_results[m].cogs_total, pnl_results[m].opex_total, pnl_results[m].channel_payouts>>
Sum3(t) == t[1] + t[2] + t[3]

\* C16: when payables terms exist, every month's ending AP is total_expenses * dpo_days / 30
\* to the cent, the total disbursed is prior AP + total_expenses - ending AP floored at 0
\* (within the rounding of the three categories), and no disbursement category is negative.
C16_DisbursementsFloored ==
    \A t \in PayablesTerms : \A m \in DOMAIN cashflow_results :
        LET total_expenses == Sum3(ExpensesOf(m))
            ending_ap == balance_sheet_results[m].accounts_payable
        IN  /\ 2 * Abs(30 * ending_ap - total_expenses * t.dpo_days) <= 30 * Cent
            /\ \A i \in 1..3 : DisbursementsOf(m)[i] >= 0
            /\ Abs(Sum3(DisbursementsOf(m))
                   - Max(PriorSheetAP(m) + total_expenses - ending_ap, 0)) <= 2 * Tolerance

\* C17: when payables terms exist, in every month the three category disbursements are each
\* category's share of prior AP + total_expenses - ending AP and sum to it within rounding,
\* also in a month without expenses that opens with payables outstanding.
C17_DisbursementsSumToTotal ==
    \A t \in PayablesTerms : \A m \in DOMAIN cashflow_results :
        LET total_expenses == Sum3(ExpensesOf(m))
            ending_ap == balance_sheet_results[m].accounts_payable
            total_disbursements == PriorSheetAP(m) + total_expenses - ending_ap
        IN  /\ Abs(Sum3(DisbursementsOf(m)) - total_disbursements) <= 2 * Tolerance
            /\ total_expenses > 0 =>
                    \A i \in 1..3 :
                        Abs(DisbursementsOf(m)[i] * (total_expenses \div Cent)
                            - total_disbursements * (ExpensesOf(m)[i] \div Cent))
                                <= Tolerance * (total_expenses \div Cent)

\* Deferred revenue is active: billing terms with a non-zero annual_prepaid_mix exist.
DeferredActive == \E t \in BillingTerms : t.annual_prepaid_mix # 0

\* The month's ending deferred revenue is, to the cent,
\* max(0, prior + 11/12 * (revenue_subscriptions * mix) - prior / 12).
DeferredFollowsFormula(m) ==
    \A t \in BillingTerms :
        LET prior_deferred == PriorSheetDeferred(m)
            new_deferral == pnl_results[m].revenue_subscriptions * t.annual_prepaid_mix * 11
            recognition == prior_deferred * Scale
            expected == Max(prior_deferred * 12 * Scale + new_deferral - recognition, 0)
        IN  2 * Abs(balance_sheet_results[m].deferred_revenue * 12 * Scale - expected)
                <= 12 * Scale * Cent

DeferredInactive(m) ==
    /\ balance_sheet_results[m].deferred_revenue = 0
    /\ cashflow_results[m].change_in_deferred_rev = 0

\* C18 as stated: deferred revenue and its change are 0 unless billing terms with a non-zero
\* annual_prepaid_mix exist; with them the ending balance follows the formula and the
\* reported change_in_deferred_rev equals the ending balance minus the previous month's.
C18_DeferredChangeExact ==
    \A m \in DOMAIN cashflow_results :
        IF ~DeferredActive THEN DeferredInactive(m)
        ELSE /\ DeferredFollowsFormula(m)
             /\ cashflow_results[m].change_in_deferred_rev
                    = balance_sheet_results[m].deferred_revenue - PriorSheetDeferred(m)

\* C18, amended: as above, with the reported change within 0.01 of the ending balance minus
\* the previous month's ending balance.
C18_DeferredChangeToTheCent ==
    \A m \in DOMAIN cashflow_results :
        IF ~DeferredActive THEN DeferredInactive(m)
        ELSE /\ DeferredFollowsFormula(m)
             /\ Abs(cashflow_results[m].change_in_deferred_rev
                    - (balance_sheet_results[m].deferred_revenue - PriorSheetDeferred(m)))
                        <= Tolerance

\* A month that opens with a deferred balance, recognises part of it and reports a change
\* one cent away from the change of the balance.
C18_Witness ==
    /\ DeferredActive
    /\ \E m \in DOMAIN cashflow_results :
            /\ PriorSheetDeferred(m) > 0
            /\ cashflow_results[m].change_in_deferred_rev
                    # balance_sheet_results[m].deferred_revenue - PriorSheetDeferred(m)

\* total_assets - total_liabilities_equity of month m before the reconciling plug.
PrePlugDifference(m) ==
    LET bs == balance_sheet_results[m]
    IN  (bs.cash + bs.accounts_receivable)
        - (bs.accounts_payable + bs.deferred_revenue + bs.contributed_capital
           + PriorSheetRetained(m) + pnl_results[m].ebitda)

PrecedingKey(k) == [k EXCEPT !.month = PrecedingMonth(k.month)]

\* active_logos the pair carried into the month of key k: 0 in the first month.
PriorActive(k) ==
    IF IsFirstMonth(k.month) THEN 0 ELSE cohort_results[PrecedingKey(k)].active_logos

\* The keys of k's pair up to k's month.
KeysUpTo(k) ==
    {j \in DOMAIN cohort_results :
        /\ j.segment_id = k.segment_id /\ j.channel_id = k.channel_id
        /\ IndexOfMonth(j.month) <= IndexOfMonth(k.month)}

ChurnRows(k) ==
    MatchSSC(inputs.retention_assumptions, k.scenario_id, k.segment_id, k.channel_id)

\* C12: every stored CohortState follows the recurrence: churned = prior_active * churn rate
\* to the cent (0 without a churn row), retained = prior_active - churned,
\* active = retained + new_logos, prior_active being the pair's preceding month's
\* active_logos (0 in the first month); without a churn row the active logos of month k are
\* the sum of the pair's new logos of months 1..k.
C12_CohortRecurrence ==
    \A k \in DOMAIN cohort_results :
        LET st == cohort_results[k]
        IN  /\ ~IsFirstMonth(k.month) => PrecedingKey(k) \in DOMAIN cohort_results
            /\ \A r \in ChurnRows(k) :
                    2 * Abs(st.churned_logos * Scale - PriorActive(k) * r.logo_churn_m)
                        <= Scale * Cent
            /\ ChurnRows(k) = {} => st.churned_logos = 0
            /\ st.retained_logos = PriorActive(k) - st.churned_logos
            /\ st.active_logos = st.retained_logos + st.new_logos
            /\ ChurnRows(k) = {} =>
                    st.active_logos
                        = SumOver(KeysUpTo(k), [j \in KeysUpTo(k) |-> cohort_results[j].new_logos])

\* A finished cohort run in which the direct channel, without churn, wins 10 logos a month
\* and holds 10 * k after k months, and the partner opens a month with 100 logos, wins none
\* and at 10% churn loses 10, retains 90 and ends at 90.
C12_Witness ==
    /\ pc = "revenue"
    /\ Len(inputs.months) = NumMonths
    /\ \A m \in 1..NumMonths :
            LET k == CohortKey(m, "base", "smb", "direct")
            IN  /\ k \in DOMAIN cohort_results
                /\ ChurnRows(k) = {}
                /\ cohort_results[k].new_logos = 10 * Scale
                /\ cohort_results[k].active_logos = 10 * m * Scale
    /\ LET k == CohortKey(2, "base", "smb", "partner")
       IN  /\ k \in DOMAIN cohort_results
           /\ PriorActive(k) = 100 * Scale
           /\ cohort_results[k].new_logos = 0
           /\ cohort_results[k].churned_logos = 10 * Scale
           /\ cohort_results[k].retained_logos = 90 * Scale
           /\ cohort_results[k].active_logos = 90 * Scale

\* The clamped ramp factor of a hire row at month m, in twelfths:
\* clamp(months_since_hire / ramp_months, 0, 1) * 12, and 12 once ramp_months have elapsed.
RampTwelfths(row, m) ==
    LET months_since_hire == IndexOfMonth(m) - IndexOfMonth(row.month)
    IN  IF months_since_hire >= row.ramp_months THEN 12
        ELSE IF months_since_hire <= 0 THEN 0
        ELSE (months_since_hire * 12) \div row.ramp_months

\* The hire events of function f with hire month <= m.
HiredBy(f, m) == {h \in inputs.headcount_plan : h.function = f /\ h.month <= m}

\* 144 times the sum of hires * (annual cost / 12) * ramp factor, in cents.
RampedCost144(f, m) ==
    SumOver(HiredBy(f, m),
            [h \in HiredBy(f, m) |->
                h.hires * (h.fully_loaded_annual \div Cent) * RampTwelfths(h, m)])

\* C13: the monthly cost of every function is, to the cent, the sum over its hire events
\* with hire month <= the evaluation month of hires * (annual cost / 12) *
\* clamp(months_since_hire / ramp_months, 0, 1); the factor of a hire, and with it the
\* function's cost, never decreases along the month list, and the factor is 1 from
\* ramp_months after the hire onward.
C13_HeadcountRamp ==
    pc \in {"statements", "validation", "done"} =>
    \A m \in DOMAIN opex_results :
        LET by_function == opex_results[m].opex_by_function
        IN  /\ DOMAIN by_function = {h.function : h \in inputs.headcount_plan}
            /\ \A f \in DOMAIN by_function :
                /\ Abs((by_function[f] \div Cent) * 144 - RampedCost144(f, m)) <= 144
                /\ ~IsFirstMonth(m) =>
                        opex_results[PrecedingMonth(m)].opex_by_function[f] <= by_function[f]
                /\ \A h \in HiredBy(f, m) :
                    /\ ~IsFirstMonth(m) =>
                            RampTwelfths(h, PrecedingMonth(m)) <= RampTwelfths(h, m)
                    /\ IndexOfMonth(m) - IndexOfMonth(h.month) >= h.ramp_months =>
                            RampTwelfths(h, m) = 12

\* Four engineers at 120000 a year with a 4-month ramp cost 20000 two months after their
\* hire, next to a salesperson whose 1-month ramp has elapsed and who costs 1000 a month.
C13_Witness ==
    /\ pc = "done"
    /\ HireRow(1, "eng", 4, 120000000, 4) \in inputs.headcount_plan
    /\ 3 \in DOMAIN opex_results
    /\ IndexOfMonth(3) - IndexOfMonth(1) = 2
    /\ opex_results[3].opex_by_function["eng"] = 20000000
    /\ opex_results[3].opex_by_function["sales"] = 1000000
    /\ opex_results[1].opex_by_function["eng"] = 0

\* The results of the stage are those of the current run.
CohortsCurrent == pc \in {"cohorts", "revenue", "cogs", "opex", "statements", "validation", "done"}
RevenuesCurrent == pc \in {"cogs", "opex", "statements", "validation", "done"}
StatementsCurrent == pc \in {"statements", "validation", "done"}

NoNewLogoRows(k) ==
    /\ MatchMSSC(inputs.new_logos_override, k.month, k.scenario_id, k.segment_id,
                 k.channel_id) = {}
    /\ MatchMSSC(inputs.funnel_assumptions, k.month, k.scenario_id, k.segment_id,
                 k.channel_id) = {}

ChannelTermsRows(k) == {c \in inputs.channel_terms : c.channel_id = k.channel_id}

\* C14: a run over inputs that lack reference rows does not fail, and each missing row
\* yields its neutral default: new_logos = 0 without an override and a funnel row;
\* churned = 0 without a retention row; discount = payout = 0 and net = gross without a
\* channel-terms row; collections = revenue_total and ending AR = 0 without billing terms;
\* disbursements equal to the month's COGS, opex and channel payouts and ending AP = 0
\* without payables terms.
C14_NeutralDefaults ==
    /\ pc # "failed"
    /\ CohortsCurrent =>
        \A k \in DOMAIN cohort_results :
            /\ NoNewLogoRows(k) => cohort_results[k].new_logos = 0
            /\ ChurnRows(k) = {} => cohort_results[k].churned_logos = 0
    /\ RevenuesCurrent =>
        \A k \in DOMAIN revenue_results :
            ChannelTermsRows(k) = {} =>
                /\ revenue_results[k].channel_discount = 0
                /\ revenue_results[k].channel_payout = 0
                /\ revenue_results[k].net_revenue = revenue_results[k].gross_revenue
    /\ StatementsCurrent =>
        \A m \in DOMAIN cashflow_results :
            /\ BillingTerms = {} =>
                /\ cashflow_results[m].collections = pnl_results[m].revenue_total
                /\ balance_sheet_results[m].accounts_receivable = 0
            /\ PayablesTerms = {} =>
                /\ DisbursementsOf(m) = ExpensesOf(m)
                /\ balance_sheet_results[m].accounts_payable = 0

\* A finished run without funnel, retention, channel-terms, billing and payables rows, in
\* which the direct channel wins logos by override and earns revenue, the partner wins
\* none, and the month's revenue is collected and its expenses are paid in full.
C14_Witness ==
    /\ pc = "done"
    /\ BillingTerms = {} /\ PayablesTerms = {}
    /\ \E k \in DOMAIN cohort_results :
            NoNewLogoRows(k) /\ k.channel_id = "partner" /\ cohort_results[k].new_logos = 0
    /\ \E k \in DOMAIN cohort_results :
            /\ ChurnRows(k) = {} /\ ~IsFirstMonth(k.month)
            /\ PriorActive(k) > 0 /\ cohort_results[k].churned_logos = 0
    /\ \E k \in DOMAIN revenue_results :
            /\ ChannelTermsRows(k) = {}
            /\ revenue_results[k].gross_revenue > 0
            /\ revenue_results[k].net_revenue = revenue_results[k].gross_revenue
    /\ \E m \in DOMAIN cashflow_results :
            /\ cashflow_results[m].collections = pnl_results[m].revenue_total
            /\ pnl_results[m].revenue_total > 0
            /\ Sum3(DisbursementsOf(m)) > 0

\* C20: a key whose channel has a terms row is treated under that row's model alone: with
\* resale_discount the payout is 0, the discount is gross * resale_discount_pct and the net
\* revenue gross * (1 - resale_discount_pct), each to the cent; with revshare or
\* referral_fee the discount is 0, the net revenue is the gross revenue and the payout is
\* gross * revshare_pct, respectively gross * referral_fee_pct, to the cent; discount and
\* payout are never both non-zero.
C20_OneChannelModel ==
    RevenuesCurrent =>
        \A k \in DOMAIN revenue_results :
            LET r == revenue_results[k]
                gross == r.gross_revenue
                ToTheCent(amount, pct) == 2 * Abs(amount * Scale - gross * pct) <= Scale * Cent
            IN  /\ ~(r.channel_discount # 0 /\ r.channel_payout # 0)
                /\ \A t \in ChannelTermsRows(k) :
                    /\ t.model = "resale_discount" =>
                        /\ r.channel_payout = 0
                        /\ ToTheCent(r.channel_discount, t.resale_discount_pct)
                        /\ ToTheCent(r.net_revenue, Scale - t.resale_discount_pct)
                    /\ t.model = "revshare" =>
                        /\ r.channel_discount = 0
                        /\ r.net_revenue = gross
                        /\ ToTheCent(r.channel_payout, t.revshare_pct)
                    /\ t.model = "referral_fee" =>
                        /\ r.channel_discount = 0
                        /\ r.net_revenue = gross
                        /\ ToTheCent(r.channel_payout, t.referral_fee_pct)

\* A finished run whose partner terms select revshare at 20% and also carry a resale
\* discount and a referral fee of 30%: the partner pays out 20% of a non-zero gross revenue
\* and nothing else.
C20_Witness ==
    /\ pc = "done"
    /\ \E k \in DOMAIN revenue_results : \E t \in ChannelTermsRows(k) :
            /\ t.model = "revshare"
            /\ t.resale_discount_pct > 0 /\ t.referral_fee_pct > 0
            /\ t.revshare_pct # t.referral_fee_pct
            /\ revenue_results[k].gross_revenue > 0
            /\ revenue_results[k].channel_payout > 0
            /\ revenue_results[k].channel_discount = 0

\* The inputs with nothing but the pair in them: one segment, one channel, and of every
\* table the cohort engine reads only the pair's rows.
OnlyPair(inp, segment_id, channel_id) ==
    LET own(table) == {r \in table : r.segment_id = segment_id /\ r.channel_id = channel_id}
    IN  [inp EXCEPT !.segments = <<segment_id>>,
                    !.channels = <<channel_id>>,
                    !.funnel_assumptions = own(@),
                    !.new_logos_override = own(@),
                    !.retention_assumptions = own(@),
                    !.seats_envs_assumptions = own(@),
                    !.pack_attach_rates = own(@)]

RECURSIVE PairAlone(_, _, _, _)
\* The result of calculate_cohort_state for the i-th month of a pair scanned on its own, in
\* month order, from prior_state = None.
PairAlone(inp, segment_id, channel_id, i) ==
    LET before == IF i = 1 THEN [raised |-> FALSE]
                  ELSE PairAlone(inp, segment_id, channel_id, i - 1)
    IN  IF before.raised THEN before
        ELSE calculate_cohort_state(inp, inp.months[i], inp.scenario_id, segment_id,
                                    channel_id,
                                    IF i = 1 THEN None ELSE AsCohortState(before), i - 1)

\* C15: whichever pair is advanced next, in whatever interleaving and with whichever other
\* channels in the run, every CohortState stored for a pair is the one the pair yields when
\* it is scanned alone over inputs that hold no other pair's rows.
C15_PairsIndependent ==
    CohortsCurrent =>
        \A k \in DOMAIN cohort_results :
            cohort_results[k]
                = AsCohortState(PairAlone(OnlyPair(inputs, k.segment_id, k.channel_id),
                                          k.segment_id, k.channel_id, IndexOfMonth(k.month)))

\* Two channels with different churn, interleaved: the partner's second month was computed
\* after the direct channel's first and before the direct channel's second, and both
\* channels hold logos.
C15_Witness ==
    /\ pc = "cohorts"
    /\ Len(inputs.channels) = 2
    /\ LET d1 == CohortKey(inputs.months[1], "base", "smb", "direct")
           d2 == CohortKey(inputs.months[2], "base", "smb", "direct")
           p2 == CohortKey(inputs.months[2], "base", "smb", "partner")
       IN  /\ d1 \in DOMAIN cohort_results
           /\ p2 \in DOMAIN cohort_results
           /\ d2 \notin DOMAIN cohort_results
           /\ cohort_results[d1].active_logos > 0
           /\ cohort_results[p2].churned_logos > 0
           /\ ChurnRows(d1) # ChurnRows(p2)

\* max(0, total_driver_units - included_allowance) * take_rate * overage_price of key k,
\* to the thousandth, from the usage row of the key and the usage_llm row of its segment.
OverageAtUnitPrice(k) ==
    LET usage == First(MatchSSC(inputs.usage_assumptions, k.scenario_id, k.segment_id,
                                k.channel_id))
        mon == First({u \in inputs.usage_monetization :
                        u.sku_id = "usage_llm" /\ u.segment_id = k.segment_id})
        active_logos == cohort_results[k].active_logos
        total_driver_units == DecMul(active_logos, usage.tokens_per_tenant_m)
        included_allowance == DecMul(active_logos, mon.included_units_per_tenant_m)
        overage_units == Max(total_driver_units - included_allowance, 0)
    IN  DecRatio(DecMul(overage_units, mon.overage_take_rate), mon.overage_price_per_unit, Scale)

HasUsageRows(k) ==
    /\ MatchSSC(inputs.usage_assumptions, k.scenario_id, k.segment_id, k.channel_id) # {}
    /\ \E u \in inputs.usage_monetization : u.sku_id = "usage_llm" /\ u.segment_id = k.segment_id

\* C21: the usage overage revenue of every key with usage and monetization rows is never
\* negative and is, within 0.01,
\* max(0, total_driver_units - included_allowance) * take_rate * overage_price.
C21_UsageOverage ==
    RevenuesCurrent =>
        \A k \in DOMAIN revenue_results :
            HasUsageRows(k) =>
                /\ revenue_results[k].usage_revenue >= 0
                /\ Abs(revenue_results[k].usage_revenue - OverageAtUnitPrice(k)) <= Tolerance

\* The attach-rate rows of key k's (segment, channel) pair.
AttachRows(k) ==
    {r \in inputs.pack_attach_rates : r.segment_id = k.segment_id /\ r.channel_id = k.channel_id}

\* The rate of row r in month index i as the fraction RampRate(r, i)[1] / RampRate(r, i)[2]
\* of the target: i / attach_ramp_months while i < attach_ramp_months, 1 from then on.
RampRate(r, i) == IF i >= r.attach_ramp_months THEN <<1, 1>> ELSE <<i, r.attach_ramp_months>>

\* C22: for every attach-rate row of a key's pair, the attached count of month index i is,
\* to the cent, active_logos * target * i / attach_ramp_months while i < attach_ramp_months
\* and active_logos * target from then on: 0 in the first month of a ramp, at the target
\* rate at once when attach_ramp_months = 0, with a rate that never decreases in i, and
\* never more than active_logos.
C22_AttachRamp ==
    CohortsCurrent =>
        \A k \in DOMAIN cohort_results : \A r \in AttachRows(k) :
            LET i == IndexOfMonth(k.month) - 1
                active_logos == cohort_results[k].active_logos
                attached == cohort_results[k].pack_attachments[r.sku_id]
                rate == RampRate(r, i)
                next_rate == RampRate(r, i + 1)
            IN  /\ 2 * Abs(attached * rate[2] * Scale - active_logos * r.attach_rate * rate[1])
                        <= rate[2] * Scale * Cent
                /\ (i = 0 /\ r.attach_ramp_months > 0) => attached = 0
                /\ r.attach_ramp_months = 0 => rate = <<1, 1>>
                /\ rate[1] * next_rate[2] <= next_rate[1] * rate[2]
                /\ attached <= active_logos

\* A direct key half-way through its 2-month ramp, attaching a quarter of its logos after
\* attaching none in the first month, next to a partner key that attaches at its target
\* rate in the first month because its row has no ramp.
C22_Witness ==
    /\ CohortsCurrent
    /\ \E k \in DOMAIN cohort_results : \E r \in AttachRows(k) :
            /\ r.attach_ramp_months = 2 /\ IndexOfMonth(k.month) = 2
            /\ cohort_results[k].active_logos > 0
            /\ cohort_results[k].pack_attachments[r.sku_id] * 4000
                    = cohort_results[k].active_logos * r.attach_rate * 2
            /\ cohort_results[PrecedingKey(k)].active_logos > 0
            /\ cohort_results[PrecedingKey(k)].pack_attachments[r.sku_id] = 0
    /\ \E k \in DOMAIN cohort_results : \E r \in AttachRows(k) :
            /\ r.attach_ramp_months = 0 /\ IsFirstMonth(k.month)
            /\ cohort_results[k].pack_attachments[r.sku_id] > 0

\* The months of the keys of every result mapping of the current run.
OutputMonths ==
    (IF CohortsCurrent THEN {k.month : k \in DOMAIN cohort_results} ELSE {})
    \cup (IF RevenuesCurrent
          THEN {k.month : k \in DOMAIN revenue_results} \cup {k.month : k \in DOMAIN cogs_results}
          ELSE {})
    \cup (IF StatementsCurrent
          THEN DOMAIN opex_results \cup DOMAIN pnl_results \cup DOMAIN cashflow_results
               \cup DOMAIN balance_sheet_results
          ELSE {})

\* C23: when the Orchestrator was constructed with a RunSettings window, the month of every
\* key of the cohort, revenue, COGS, opex, P&L, cash-flow and balance-sheet results lies
\* inside the window, whether or not a month of the input month list does.  Stated for the
\* Orchestrator built from the caller's untouched inputs.
C23_OnlyWindowMonths ==
    (run_no = 1 /\ run_settings # None) =>
        \A m \in OutputMonths : run_settings.start_month <= m /\ m <= run_settings.end_month

\* The cohort stage of the current run has returned its mapping.
CohortRunCompleted == CohortsCurrent /\ pc # "cohorts"

\* C24: every CohortState of a CohortEngine.run that completed without error has
\* non-negative active_logos, new_logos, churned_logos and retained_logos, whatever the
\* override, funnel and retention rows are.
C24_CountsNonNegative ==
    CohortRunCompleted =>
        \A k \in DOMAIN cohort_results :
            /\ cohort_results[k].active_logos >= 0
            /\ cohort_results[k].new_logos >= 0
            /\ cohort_results[k].churned_logos >= 0
            /\ cohort_results[k].retained_logos >= 0

\* The COGS stage of the current run has returned its mapping.
CogsCurrent == pc \in {"opex", "statements", "validation", "done"}

\* fixed_platform_cogs_m of the scenario's cogs_unit_costs row (0 without a row).
FixedBaseline ==
    LET rows == {c \in inputs.cogs_unit_costs : c.scenario_id = inputs.scenario_id}
    IN  IF rows = {} THEN 0 ELSE (CHOOSE c \in rows : TRUE).fixed_platform_cogs_m

\* The sum of active_logos over all cohort keys of the run.
TotalActive ==
    SumOver(DOMAIN cohort_results, [k \in DOMAIN cohort_results |-> cohort_results[k].active_logos])

\* share is baseline * active / total to the nearest thousandth.
IsLogoShare(share, active) ==
    /\ 2 * (share * TotalActive - FixedBaseline * active) <= TotalActive
    /\ 2 * (FixedBaseline * active - share * TotalActive) <= TotalActive

LastSheet ==
    IF stmt_pos = 1 THEN None ELSE balance_sheet_results[inputs.months[stmt_pos - 1]]

\* C26: the statements loop carries exactly the previous month's ending balances forward:
\* the AR, AP and deferred revenue handed to the next month's cash flow are those of the
\* balance sheet handed to the next month's balance sheet (zeros and no sheet before the
\* first month), so every month's change_in_ar is AR(m-1) - AR(m) and its change_in_ap is
\* AP(m) - AP(m-1) against the balance sheets of months m-1 and m.
C26_CarryForward ==
    StatementsCurrent =>
        /\ pc = "statements" =>
            /\ prior.prior_balance_sheet = LastSheet
            /\ prior.prior_ar = IF LastSheet = None THEN 0 ELSE LastSheet.accounts_receivable
            /\ prior.prior_ap = IF LastSheet = None THEN 0 ELSE LastSheet.accounts_payable
            /\ prior.prior_deferred = IF LastSheet = None THEN 0 ELSE LastSheet.deferred_revenue
        /\ \A m \in DOMAIN cashflow_results :
            /\ cashflow_results[m].change_in_ar
                    = PriorSheetAR(m) - balance_sheet_results[m].accounts_receivable
            /\ cashflow_results[m].change_in_ap
                    = balance_sheet_results[m].accounts_payable - PriorSheetAP(m)

\* A later month whose opening AR, AP and deferred revenue are all positive and whose AR and
\* AP both changed.
C26_Witness ==
    /\ StatementsCurrent
    /\ \E m \in DOMAIN cashflow_results :
            /\ ~IsFirstMonth(m)
            /\ PriorSheetAR(m) > 0
            /\ PriorSheetAP(m) > 0
            /\ PriorSheetDeferred(m) > 0
            /\ cashflow_results[m].change_in_ar # 0
            /\ cashflow_results[m].change_in_ap # 0

\* One CohortKey per (month, segment, channel) of the run, with the run's scenario_id.
ExpectedCohortKeys ==
    {CohortKey(m, inputs.scenario_id, s, c) :
        m \in Range(inputs.months), s \in Range(inputs.segments), c \in Range(inputs.channels)}

RunCompleted == pc \in {"validation", "done"}

\* C27: in a completed Orchestrator.run the cohort, revenue and COGS mappings have the same
\* key set, one key per (month, segment, channel) of the run's month list x segments x
\* channels with the run's scenario_id, and the opex, P&L, cash-flow and balance-sheet
\* mappings have one entry per month of the month list.
C27_KeySets ==
    RunCompleted =>
        /\ DOMAIN cohort_results = ExpectedCohortKeys
        /\ DOMAIN revenue_results = ExpectedCohortKeys
        /\ DOMAIN cogs_results = ExpectedCohortKeys
        /\ Cardinality(ExpectedCohortKeys)
                = Len(inputs.months) * Len(inputs.segments) * Len(inputs.channels)
        /\ DOMAIN opex_results = Range(inputs.months)
        /\ DOMAIN pnl_results = Range(inputs.months)
        /\ DOMAIN cashflow_results = Range(inputs.months)
        /\ DOMAIN balance_sheet_results = Range(inputs.months)
        /\ Cardinality(Range(inputs.months)) = Len(inputs.months)

\* A finished run over a window shorter than the caller's month list, with two channels, in
\* which one cohort has no active logos.
C27_Witness ==
    /\ pc = "done"
    /\ Len(inputs.months) < Len(caller_inputs.months)
    /\ Len(inputs.channels) = 2
    /\ \E k \in DOMAIN cohort_results : cohort_results[k].active_logos = 0
    /\ \E k \in DOMAIN cohort_results : cohort_results[k].active_logos > 0

\* Some cohort of month m has active logos.
MonthHasActiveLogos(m) ==
    \E k \in DOMAIN cohort_results : k.month = m /\ cohort_results[k].active_logos > 0

\* C28: in every month in which a cohort has active logos, the P&L's cogs_fixed (the sum of
\* cogs_fixed_total over the month's cohort keys) is the scenario's monthly baseline
\* fixed_platform_cogs_m (to the cent), however many months the run covers.
C28_MonthlyFixedBaseline ==
    StatementsCurrent =>
        \A m \in DOMAIN pnl_results :
            MonthHasActiveLogos(m) => Abs(pnl_results[m].cogs_fixed - FixedBaseline) <= Cent

WholeCent(x) == x % Cent = 0

\* Every amount the statements engine reads is a whole number of cents.
WholeCentRun ==
    /\ WholeCent(inputs.initial_cash) /\ WholeCent(inputs.initial_contributed_capital)
    /\ \A k \in DOMAIN revenue_results :
            /\ WholeCent(revenue_results[k].mrr_total)
            /\ WholeCent(revenue_results[k].usage_revenue)
            /\ WholeCent(revenue_results[k].services_total)
            /\ WholeCent(revenue_results[k].channel_payout)
    /\ \A k \in DOMAIN cogs_results :
            /\ WholeCent(cogs_results[k].cogs_variable_total)
            /\ WholeCent(cogs_results[k].cogs_fixed_total)
            /\ WholeCent(cogs_results[k].cogs_services_total)
    /\ \A m \in DOMAIN opex_results : WholeCent(opex_results[m].opex_total)

\* No billing terms, no payables terms and no revenue resold at a discount.
NoTermsNoDiscount ==
    /\ BillingTerms = {}
    /\ PayablesTerms = {}
    /\ \A k \in DOMAIN revenue_results : revenue_results[k].channel_discount = 0

\* The sum of ebitda over the months of the run up to and including m.
EbitdaThrough(m) ==
    LET ms == {i \in DOMAIN pnl_results : IndexOfMonth(i) <= IndexOfMonth(m)}
    IN  SumOver(ms, [i \in ms |-> pnl_results[i].ebitda])

\* C29: in a run with whole-cent amounts, no billing terms, no payables terms and no resale
\* discount, (a) when initial_cash = initial_contributed_capital the plug never fires:
\* every month's retained earnings are the previous month's plus the month's ebitda, and
\* its cash is initial_cash plus the ebitda of the months so far; (b) when the two differ by
\* more than 0.01 the plug fires in the first month and puts that difference into retained
\* earnings.
C29_PlugOnOpeningImbalance ==
    (WholeCentRun /\ NoTermsNoDiscount) =>
        \A m \in DOMAIN balance_sheet_results :
            /\ inputs.initial_cash = inputs.initial_contributed_capital =>
                /\ balance_sheet_results[m].retained_earnings
                        = PriorSheetRetained(m) + pnl_results[m].ebitda
                /\ balance_sheet_results[m].cash = inputs.initial_cash + EbitdaThrough(m)
            /\ (Abs(inputs.initial_cash - inputs.initial_contributed_capital) > Tolerance
                /\ IsFirstMonth(m)) =>
                    balance_sheet_results[m].retained_earnings
                        = pnl_results[m].ebitda
                          + (inputs.initial_cash - inputs.initial_contributed_capital)

\* A finished run whose opening cash is 50 short of the capital: the first month's retained
\* earnings carry the shortfall, and the last month still earns a non-zero ebitda.
C29_Witness ==
    /\ WholeCentRun /\ NoTermsNoDiscount
    /\ pc = "validation"
    /\ inputs.initial_cash - inputs.initial_contributed_capital = -50000
    /\ balance_sheet_results[inputs.months[1]].retained_earnings
            = pnl_results[inputs.months[1]].ebitda - 50000
    /\ pnl_results[inputs.months[Len(inputs.months)]].ebitda # 0

\* What an Orchestrator with the current RunSettings makes of a fresh copy of the caller's
\* original inputs.
FreshConstructed ==
    apply_run_settings(caller_inputs, effective_run_settings(caller_inputs, run_settings))

\* C30: constructing and running an Orchestrator leaves the caller's ModelInputs as it was
\* (month list, scenario_id and every table), so a second Orchestrator with RunSettings of
\* its own works on what it would get from a fresh copy of the original inputs, and its
\* statements cover the months a fresh copy would give.
C30_CallerInputsUnchanged ==
    /\ (run_no = 1 /\ pc # "construct") => inputs = caller_inputs
    /\ (run_no = 2 /\ pc # "construct") => inputs = FreshConstructed
    /\ (run_no = 2 /\ RunCompleted) => DOMAIN pnl_results = Range(FreshConstructed.months)

====
